---- MODULE Spec2Model ----
(***************************************************************************)
(* Model of firefly_server.py: the lazily constructed client handle        *)
(* (load_config, get_api_client), the error formatter (format_error) and   *)
(* the tool adapters built on them.                                       *)
(*                                                                         *)
(* Strings are sequences of one-character strings, so that strip(),        *)
(* lower(), isdigit(), rstrip("/") and endswith() are computed as Python   *)
(* computes them.  The token "sup2" stands for the single code point       *)
(* U+00B2 (SUPERSCRIPT TWO).  None is the empty sequence and an object     *)
(* reference is a one-element sequence.  A dict is a function whose        *)
(* DOMAIN is its key set.                                                  *)
(***************************************************************************)
EXTENDS Integers, Sequences, FiniteSets, TLC

VARIABLES
    file,            \* contents of SECRETS_FILE on disk
    _api_client,     \* module global, line 31
    _configuration,  \* module global, line 32
    reads,           \* number of times SECRETS_FILE has been opened
    constructions,   \* number of ApiClient objects constructed
    started,         \* the __main__ block has reached mcp.run
    returned,        \* the invocation that has returned, until its string is sent to the caller
    inflight,        \* invocations suspended at their backend call
    received         \* number of requests the backend has received

vars == <<file, _api_client, _configuration, reads, constructions, started, returned, inflight, received>>

(***************************************************************************)
(* Bounds                                                                  *)
(***************************************************************************)
MaxReads == 3
NumSlots == 2
MaxReceived == 2
MaxRows == 2

None == <<>>

(***************************************************************************)
(* Python string methods                                                   *)
(***************************************************************************)
Whitespace == {" ", "\t", "\n"}

AsciiDigits == {"0", "1", "2", "3", "4", "5", "6", "7", "8", "9"}

\* str.isdigit() accepts every code point of Numeric_Type Digit or Decimal
DigitChars == AsciiDigits \cup {"sup2"}

RECURSIVE lstrip(_)
lstrip(s) == IF s # <<>> /\ Head(s) \in Whitespace THEN lstrip(Tail(s)) ELSE s

RECURSIVE rstrip(_)
rstrip(s) ==
    IF s # <<>> /\ s[Len(s)] \in Whitespace THEN rstrip(SubSeq(s, 1, Len(s) - 1)) ELSE s

strip(s) == rstrip(lstrip(s))

RECURSIVE rstrip_chars(_, _)
rstrip_chars(s, chars) ==
    IF s # <<>> /\ s[Len(s)] \in chars
    THEN rstrip_chars(SubSeq(s, 1, Len(s) - 1), chars)
    ELSE s

endswith(s, suffix) ==
    /\ Len(s) >= Len(suffix)
    /\ SubSeq(s, Len(s) - Len(suffix) + 1, Len(s)) = suffix

isdigit(s) == s # <<>> /\ \A i \in 1..Len(s) : s[i] \in DigitChars

lower_char(c) ==
    CASE c = "D" -> "d" [] c = "E" -> "e" [] c = "L" -> "l" [] c = "T" -> "t"
      [] c = "Y" -> "y" [] c = "S" -> "s" [] c = "P" -> "p" [] c = "U" -> "u"
      [] c = "R" -> "r" [] c = "G" -> "g" [] c = "O" -> "o" [] c = "A" -> "a"
      [] c = "C" -> "c" [] c = "H" -> "h"
      [] OTHER -> c

lower(s) == [i \in 1..Len(s) |-> lower_char(s[i])]

upper_char(c) ==
    CASE c = "d" -> "D" [] c = "e" -> "E" [] c = "l" -> "L" [] c = "t" -> "T"
      [] c = "y" -> "Y" [] c = "s" -> "S" [] c = "p" -> "P" [] c = "u" -> "U"
      [] c = "r" -> "R" [] c = "g" -> "G" [] c = "o" -> "O" [] c = "a" -> "A"
      [] c = "c" -> "C" [] c = "h" -> "H"
      [] OTHER -> c

upper(s) == [i \in 1..Len(s) |-> upper_char(s[i])]

\* truth value of a str: non-empty
truthy(s) == s # <<>>

(***************************************************************************)
(* String literals of the source                                           *)
(***************************************************************************)
S_DELETE == <<"D", "E", "L", "E", "T", "E">>
S_yes == <<"y", "e", "s">>
S_PURGE == <<"P", "U", "R", "G", "E">>
S_api == <<"/", "a", "p", "i">>
S_Cash == <<"C", "a", "s", "h", " ", "a", "c", "c", "o", "u", "n", "t">>

(***************************************************************************)
(* The secrets file and load_config                                        *)
(***************************************************************************)
\* A dict read from the "firefly" section: has_k is "k in config".
EmptyDict == [has_base_url |-> FALSE, base_url |-> <<>>, has_token |-> FALSE, token |-> <<>>]

Section(has_b, b, has_t, t) ==
    [has_base_url |-> has_b, base_url |-> b, has_token |-> has_t, token |-> t]

FileOf(kind, section) == [kind |-> kind, section |-> section]

Url_h == <<"h">>
Url_g_api_slash == <<"g", "/", "a", "p", "i", "/">>
Url_k_api_v1 == <<"k", "/", "a", "p", "i", "/", "v", "1">>
Tok_a == <<"a">>
Tok_b == <<"b">>

\* kind: "absent" (FileNotFoundError), "unreadable" (PermissionError),
\* "invalid" (not JSON), "nosection" (no "firefly" key), "object".
ConfigFiles ==
    { FileOf("absent", EmptyDict), FileOf("unreadable", EmptyDict),
      FileOf("invalid", EmptyDict), FileOf("nosection", EmptyDict),
      FileOf("object", Section(FALSE, <<>>, TRUE, Tok_a)),
      FileOf("object", Section(TRUE, Url_h, FALSE, <<>>)),
      FileOf("object", Section(TRUE, <<>>, TRUE, Tok_a)),
      FileOf("object", Section(TRUE, Url_h, TRUE, <<>>)),
      FileOf("object", Section(TRUE, Url_h, TRUE, Tok_a)),
      FileOf("object", Section(TRUE, Url_g_api_slash, TRUE, Tok_b)),
      FileOf("object", Section(TRUE, Url_k_api_v1, TRUE, Tok_a)) }

load_config(f) ==
    IF f.kind = "object" THEN f.section ELSE EmptyDict

\* config_get_truthy testing "k in config" only
config_get_present(has_k, v) == has_k

\* config.get(k): None (falsy) when the key is missing
config_get_truthy(has_k, v) == has_k /\ truthy(v)

(***************************************************************************)
(* Exceptions and returned strings                                         *)
(***************************************************************************)
\* cls: "ValueError", "ApiException", "Other"; an ApiException carries the
\* status and the kind of its body: "none", "notjson", "message" (a JSON
\* object with "message"), "nomessage" (a JSON object without), "list".
Exc(cls, status, body) == [cls |-> cls, status |-> status, body |-> body]

\* A returned string: its leading marker, its fixed text, and for an API
\* error the status and where the message was taken from.
Str(marker, text) == [marker |-> marker, text |-> text, status |-> 0, detail |-> "-"]

\* json.loads(e.body) and error_data.get("message", str(e)): "raise" when
\* either raises (TypeError, JSONDecodeError, AttributeError)
\* format_error_lookup where the lookup always raises
format_error_lookup_raises(body) == "raise"

format_error_lookup(body) ==
    CASE body = "message" -> "message"
      [] body = "nomessage" -> "str(e)"
      [] OTHER -> "raise"

format_error(e) ==
    IF e.cls = "ApiException"
    THEN IF format_error_lookup(e.body) # "raise"
         THEN [marker |-> "cross", text |-> "API Error", status |-> e.status,
               detail |-> format_error_lookup(e.body)]
         ELSE [marker |-> "cross", text |-> "API Error", status |-> e.status,
               detail |-> "reason"]
    ELSE [marker |-> "cross", text |-> "Error: str(e)", status |-> 0, detail |-> e.cls]

\* A rendered result that is not a single sentence: layout is "table"
\* (header lines and one line per row), "json" (json.dumps of a dict that
\* holds the list, or json.dumps(data, indent=2) of a parsed response),
\* "fields" (a block of labelled values) or "response.data" (the response
\* text as received).
Rendered(marker, text, layout, rows) ==
    [marker |-> marker, text |-> text, status |-> 0, detail |-> layout, rows |-> rows]

\* How a block of code ends: it returns a string or raises an exception.
NoExc == Exc("none", 0, "none")

Ret(str) == [raised |-> FALSE, exc |-> NoExc, value |-> str]

Raise(e) == [raised |-> TRUE, exc |-> e, value |-> Str("none", "none")]

\* Try with "except ApiException" in place of "except Exception"
Try_ApiException_only(body) ==
    IF body.raised /\ body.exc.cls = "ApiException" THEN Ret(format_error(body.exc)) ELSE body

\* try: <body> except Exception as e: return format_error(e)
Try(body) == IF body.raised THEN Ret(format_error(body.exc)) ELSE body

(***************************************************************************)
(* get_api_client                                                          *)
(***************************************************************************)
normalize_base_url(base_url) ==
    LET stripped == rstrip_chars(base_url, {"/"})
    IN IF ~endswith(stripped, S_api) THEN stripped \o S_api ELSE stripped

\* The body of "if _api_client is None": load_config(), the check of
\* base_url and token, the Configuration and the ApiClient.
build_client(f, cl, cf) ==
    LET config == load_config(f)
    IN IF \/ ~config_get_truthy(config.has_base_url, config.base_url)
          \/ ~config_get_truthy(config.has_token, config.token)
       THEN [raised |-> TRUE, client |-> None, api_client |-> cl,
             configuration |-> cf, read |-> 1, built |-> 0, saw |-> <<f>>]
       ELSE LET conf == [host |-> normalize_base_url(config.base_url),
                         access_token |-> config.token]
                handle == [id |-> constructions + 1, configuration |-> conf]
            IN [raised |-> FALSE, client |-> <<handle>>, api_client |-> <<handle>>,
                configuration |-> <<conf>>, read |-> 1, built |-> 1, saw |-> <<f>>]

\* get_api_client without the "is None" test: a client per call
get_api_client_rebuild(f, cl, cf) == build_client(f, cl, cf)

\* get_api_client that builds a new client when the token on disk differs
get_api_client_refresh(f, cl, cf) ==
    IF cl = None \/ (f.kind = "object" /\ f.section.token # cl[1].configuration.access_token)
    THEN build_client(f, cl, cf)
    ELSE [raised |-> FALSE, client |-> cl, api_client |-> cl,
          configuration |-> cf, read |-> 0, built |-> 0, saw |-> None]

\* get_api_client calling load_config() before the "is None" test
get_api_client_reload(f, cl, cf) ==
    IF cl = None
    THEN build_client(f, cl, cf)
    ELSE [raised |-> FALSE, client |-> cl, api_client |-> cl,
          configuration |-> cf, read |-> 1, built |-> 0, saw |-> <<f>>]

\* get_api_client that remembers a failure: once the file has been read
\* after startup, a call that finds no client raises without reading it
get_api_client_poisoned(f, cl, cf) ==
    IF cl = None /\ reads >= 2
    THEN [raised |-> TRUE, client |-> None, api_client |-> cl,
          configuration |-> cf, read |-> 0, built |-> 0, saw |-> None]
    ELSE IF cl = None
    THEN build_client(f, cl, cf)
    ELSE [raised |-> FALSE, client |-> cl, api_client |-> cl,
          configuration |-> cf, read |-> 0, built |-> 0, saw |-> None]

\* The effect of one call of get_api_client() on the globals cl (_api_client)
\* and cf (_configuration) with the file f on disk: whether it raised, the
\* handle it returned, the globals it left, how often it opened the file
\* (read) and built a client (built), and the file contents it saw.
get_api_client(f, cl, cf) ==
    IF cl = None
    THEN build_client(f, cl, cf)
    ELSE [raised |-> FALSE, client |-> cl, api_client |-> cl,
          configuration |-> cf, read |-> 0, built |-> 0, saw |-> None]

\* an invocation that returns before it calls get_api_client()
NoAcquire ==
    [raised |-> FALSE, client |-> None, api_client |-> _api_client,
     configuration |-> _configuration, read |-> 0, built |-> 0, saw |-> None]

Acquire == get_api_client(file, _api_client, _configuration)

ConfigError == Exc("ValueError", 0, "none")

(***************************************************************************)
(* The backend                                                             *)
(***************************************************************************)
\* What a backend call can do: return, or raise an ApiException or another
\* exception (connection failure, response validation).
\* rows is the number of records of a successful list response.
BackendOutcomes ==
    { [ok |-> TRUE, rows |-> 0, exc |-> Exc("none", 0, "none")],
      [ok |-> TRUE, rows |-> 2, exc |-> Exc("none", 0, "none")],
      [ok |-> FALSE, rows |-> 0, exc |-> Exc("ApiException", 404, "message")],
      [ok |-> FALSE, rows |-> 0, exc |-> Exc("ApiException", 500, "notjson")],
      [ok |-> FALSE, rows |-> 0, exc |-> Exc("ApiException", 422, "nomessage")],
      [ok |-> FALSE, rows |-> 0, exc |-> Exc("ApiException", 400, "list")],
      [ok |-> FALSE, rows |-> 0, exc |-> Exc("ApiException", 401, "none")],
      [ok |-> FALSE, rows |-> 0, exc |-> Exc("Other", 0, "none")] }

\* One request: the client method, whether it deletes, destroys or purges,
\* the handle it was sent with and what was sent.
\* ok is FALSE when the call raised; rows is the number of records of a list
\* response and data the records themselves, where an adapter computes on them.
Request(op, destructive, client, payload) ==
    [op |-> op, destructive |-> destructive, client |-> client, payload |-> payload,
     ok |-> TRUE, exc |-> NoExc, rows |-> 0, data |-> <<>>]

\* the same request, answered by the exception e
Failed(req, e) == [req EXCEPT !.ok = FALSE, !.exc = e]

(***************************************************************************)
(* An invocation's record                                                  *)
(***************************************************************************)
\* raised is TRUE when an exception left the tool function.
Invocation(tool, args, acq, calls, raised, result) ==
    [tool |-> tool, args |-> args, acquired |-> acq, calls |-> calls,
     raised |-> raised, result |-> result]

NoInvocation == Invocation("none", <<>>, NoAcquire, <<>>, FALSE, Str("none", "none"))

\* The dispatcher runs one tool function at a time to its return.
Idle == started /\ returned.tool = "none"

\* Returns that sends nothing to a backend that has already received a request
Returns_once(tool, args, acq, calls, end) ==
    /\ reads + acq.read <= MaxReads
    /\ received + Len(calls) <= MaxReceived
    /\ _api_client' = acq.api_client
    /\ _configuration' = acq.configuration
    /\ reads' = reads + acq.read
    /\ constructions' = constructions + acq.built
    /\ received' = IF received > 0 THEN received ELSE received + Len(calls)
    /\ returned' = Invocation(tool, args, acq, IF received > 0 THEN <<>> ELSE calls, end.raised, end.value)
    /\ UNCHANGED <<file, started, inflight>>

\* The tool function returns: the globals take the values get_api_client
\* left, and the dispatcher holds the string for the caller.
Returns(tool, args, acq, calls, end) ==
    /\ reads + acq.read <= MaxReads
    /\ received + Len(calls) <= MaxReceived
    /\ _api_client' = acq.api_client
    /\ _configuration' = acq.configuration
    /\ reads' = reads + acq.read
    /\ constructions' = constructions + acq.built
    /\ received' = received + Len(calls)
    /\ returned' = Invocation(tool, args, acq, calls, end.raised, end.value)
    /\ UNCHANGED <<file, started, inflight>>

(***************************************************************************)
(* Startup and the environment                                             *)
(***************************************************************************)
Init ==
    /\ file \in ConfigFiles
    /\ _api_client = None
    /\ _configuration = None
    /\ reads = 0
    /\ constructions = 0
    /\ started = FALSE
    /\ returned = NoInvocation
    /\ inflight = [p \in 1..NumSlots |-> NoInvocation]
    /\ received = 0

\* __main__: load_config() once, a warning if it is empty, then mcp.run
Main ==
    /\ ~started
    /\ started' = TRUE
    /\ reads' = reads + 1
    /\ UNCHANGED <<file, _api_client, _configuration, constructions, returned, inflight, received>>

\* the dispatcher sends the returned string to the caller
Deliver ==
    /\ returned.tool # "none"
    /\ returned' = NoInvocation
    /\ UNCHANGED <<file, _api_client, _configuration, reads, constructions, started, inflight, received>>

\* The secrets file is edited while the server runs.  The file is opened
\* only inside get_api_client(), which runs without interruption, so an edit
\* made while a returned string waits for delivery is an edit made after it.
ChangeConfigFile ==
    /\ returned.tool = "none"
    /\ \E f \in ConfigFiles : f # file /\ file' = f
    /\ UNCHANGED <<_api_client, _configuration, reads, constructions, started, returned, inflight, received>>

(***************************************************************************)
(* Destructive adapters                                                    *)
(***************************************************************************)
Ids == { <<>>, <<" ">>, <<"7">> }

Confirms == { <<>>, S_DELETE, lower(S_DELETE), S_yes, upper(S_yes), S_PURGE }

\* AsyncDelete comparing the confirmation in lower case
AsyncDelete_lowercase(tool, id, confirm) ==
    /\ Idle
    /\ LET args == [id |-> id, confirm |-> confirm]
           acq == Acquire
           req == Request(tool, TRUE, acq.client, <<>>)
       IN IF ~truthy(strip(id))
          THEN Returns(tool, args, NoAcquire, <<>>, Try(Ret(Str("cross", "id is required"))))
          ELSE IF lower(confirm) # lower(S_DELETE)
          THEN Returns(tool, args, NoAcquire, <<>>, Try(Ret(Str("warning", "Set confirm='DELETE' to proceed"))))
          ELSE IF acq.raised
          THEN Returns(tool, args, acq, <<>>, Try(Raise(ConfigError)))
          ELSE \E out \in BackendOutcomes :
                 IF ~out.ok
                 THEN Returns(tool, args, acq, <<Failed(req, out.exc)>>, Try(Raise(out.exc)))
                 ELSE Returns(tool, args, acq, <<req>>, Try(Ret(Str("check", "Deleted"))))

\* The async delete_* tools (delete_account .. delete_transaction_link):
\* identifier check, confirm check, get_api_client, one delete call.
AsyncDelete(tool, id, confirm) ==
    /\ Idle
    /\ LET args == [id |-> id, confirm |-> confirm]
           acq == Acquire
           req == Request(tool, TRUE, acq.client, <<>>)
       IN IF ~truthy(strip(id))
          THEN Returns(tool, args, NoAcquire, <<>>, Try(Ret(Str("cross", "id is required"))))
          ELSE IF confirm # S_DELETE
          THEN Returns(tool, args, NoAcquire, <<>>, Try(Ret(Str("warning", "Set confirm='DELETE' to proceed"))))
          ELSE IF acq.raised
          THEN Returns(tool, args, acq, <<>>, Try(Raise(ConfigError)))
          ELSE \E out \in BackendOutcomes :
                 IF ~out.ok
                 THEN Returns(tool, args, acq, <<Failed(req, out.exc)>>, Try(Raise(out.exc)))
                 ELSE Returns(tool, args, acq, <<req>>, Try(Ret(Str("check", "Deleted"))))

delete_account == \E id \in Ids, confirm \in Confirms : AsyncDelete("delete_account", id, confirm)

delete_transaction == \E id \in Ids, confirm \in Confirms : AsyncDelete("delete_transaction", id, confirm)

delete_rule == \E id \in Ids, confirm \in Confirms : AsyncDelete("delete_rule", id, confirm)

\* SyncDelete repeating the delete call once when it fails
SyncDelete_retry(tool, args, confirm) ==
    /\ Idle
    /\ LET acq == Acquire
           req == Request(tool, TRUE, acq.client, <<>>)
       IN IF lower(confirm) # S_yes
          THEN Returns(tool, args, NoAcquire, <<>>, Ret(Str("warning", "Deletion requires confirm='yes'")))
          ELSE IF acq.raised
          THEN Returns(tool, args, acq, <<>>, Try(Raise(ConfigError)))
          ELSE \E out \in BackendOutcomes :
                 IF ~out.ok
                 THEN Returns(tool, args, acq, <<Failed(req, out.exc), Failed(req, out.exc)>>, Try(Raise(out.exc)))
                 ELSE Returns(tool, args, acq, <<req>>, Try(Ret(Str("check", "deleted"))))

\* The sync delete_* tools (delete_budget_limit .. delete_user): the confirm
\* check before the try block, then get_api_client and one delete call.
SyncDelete(tool, args, confirm) ==
    /\ Idle
    /\ LET acq == Acquire
           req == Request(tool, TRUE, acq.client, <<>>)
       IN IF lower(confirm) # S_yes
          THEN Returns(tool, args, NoAcquire, <<>>, Ret(Str("warning", "Deletion requires confirm='yes'")))
          ELSE IF acq.raised
          THEN Returns(tool, args, acq, <<>>, Try(Raise(ConfigError)))
          ELSE \E out \in BackendOutcomes :
                 IF ~out.ok
                 THEN Returns(tool, args, acq, <<Failed(req, out.exc)>>, Try(Raise(out.exc)))
                 ELSE Returns(tool, args, acq, <<req>>, Try(Ret(Str("check", "deleted"))))

delete_budget_limit ==
    \E budget_id \in Ids, budget_limit_id \in Ids, confirm \in Confirms :
        SyncDelete("delete_budget_limit",
                   [id |-> budget_limit_id, budget_id |-> budget_id, confirm |-> confirm], confirm)

delete_currency ==
    \E currency_code \in Ids, confirm \in Confirms :
        SyncDelete("delete_currency", [id |-> currency_code, confirm |-> confirm], confirm)

delete_user ==
    \E user_id \in Ids, confirm \in Confirms :
        SyncDelete("delete_user", [id |-> user_id, confirm |-> confirm], confirm)

\* objects.split(",") with the empty pieces dropped; the list is sent as is
destroy_data ==
    \E objects \in Ids, confirm \in Confirms :
        SyncDelete("destroy_data", [id |-> objects, confirm |-> confirm], confirm)

\* purge_data testing confirm_yes only
purge_data_yes_only ==
    /\ Idle
    /\ \E confirm_purge \in Confirms, confirm_yes \in Confirms :
        LET args == [confirm_purge |-> confirm_purge, confirm_yes |-> confirm_yes]
            acq == Acquire
            req == Request("purge_data", TRUE, acq.client, <<>>)
        IN IF lower(confirm_yes) # S_yes
           THEN Returns("purge_data", args, NoAcquire, <<>>,
                        Ret(Str("warning", "Purge requires confirm_purge='PURGE' and confirm_yes='yes'")))
           ELSE IF acq.raised
           THEN Returns("purge_data", args, acq, <<>>, Try(Raise(ConfigError)))
           ELSE \E out \in BackendOutcomes :
                  IF ~out.ok
                  THEN Returns("purge_data", args, acq, <<Failed(req, out.exc)>>, Try(Raise(out.exc)))
                  ELSE Returns("purge_data", args, acq, <<req>>, Try(Ret(Str("check", "purged"))))

purge_data ==
    /\ Idle
    /\ \E confirm_purge \in Confirms, confirm_yes \in Confirms :
        LET args == [confirm_purge |-> confirm_purge, confirm_yes |-> confirm_yes]
            acq == Acquire
            req == Request("purge_data", TRUE, acq.client, <<>>)
        IN IF confirm_purge # S_PURGE \/ lower(confirm_yes) # S_yes
           THEN Returns("purge_data", args, NoAcquire, <<>>,
                        Ret(Str("warning", "Purge requires confirm_purge='PURGE' and confirm_yes='yes'")))
           ELSE IF acq.raised
           THEN Returns("purge_data", args, acq, <<>>, Try(Raise(ConfigError)))
           ELSE \E out \in BackendOutcomes :
                  IF ~out.ok
                  THEN Returns("purge_data", args, acq, <<Failed(req, out.exc)>>, Try(Raise(out.exc)))
                  ELSE Returns("purge_data", args, acq, <<req>>, Try(Ret(Str("check", "purged"))))

DestructiveTools ==
    {"delete_account", "delete_transaction", "delete_rule", "delete_budget_limit",
     "delete_currency", "delete_user", "destroy_data", "purge_data"}

(***************************************************************************)
(* The raw escape hatch                                                    *)
(***************************************************************************)
S_GET == <<"G", "E", "T">>
S_POST == <<"P", "O", "S", "T">>
S_PUT == <<"P", "U", "T">>
S_PATCH == <<"P", "A", "T", "C", "H">>

Methods == { S_GET, S_POST, S_DELETE, lower(S_DELETE), <<"G", "O">> }

Paths == { <<>>, <<" ">>, <<"/", "accounts">> }

\* json.loads on the texts tried here: "{}", "[]" and "7" parse, "{" and "["
\* do not, nor does a blank text
Bodies == { <<>>, <<" ">>, <<"{", "}">>, <<"{">>, <<"7">> }

\* json.loads that accepts every string
json_loads_ok_any(s) == TRUE

json_loads_ok(s) == strip(s) \in { <<"{", "}">>, <<"[", "]">>, <<"7">> }

\* bool(json.loads(s)): {} is falsy, 7 is truthy
json_truthy(s) == strip(s) = <<"7">>

\* full_url without the host
full_url_path_only(host, path) == path

\* client.configuration.host.rstrip('/') + path
full_url(host, path) == rstrip_chars(host, {"/"}) \o path

\* response.data of a successful request: JSON text or other text
ResponseData == { [json |-> TRUE], [json |-> FALSE] }

firefly_raw_request ==
    /\ Idle
    /\ \E method \in Methods, path \in Paths, body \in Bodies :
        LET args == [method |-> method, path |-> path, body |-> body]
            acq == Acquire
            m == upper(method)
            url == full_url(acq.client[1].configuration.host, path)
            sent == IF m \in {S_POST, S_PUT, S_PATCH} /\ truthy(strip(body)) THEN strip(body) ELSE <<>>
            req == Request("rest_client.request", m = S_DELETE, acq.client,
                           [method |-> m, url |-> url, body |-> sent,
                            content_type |-> truthy(strip(body)) /\ json_truthy(body)])
        IN IF ~truthy(strip(path))
           THEN Returns("firefly_raw_request", args, NoAcquire, <<>>, Try(Ret(Str("cross", "path is required"))))
           ELSE IF acq.raised
           THEN Returns("firefly_raw_request", args, acq, <<>>, Try(Raise(ConfigError)))
           ELSE IF m \notin {S_GET, S_POST, S_PUT, S_DELETE, S_PATCH}
           THEN Returns("firefly_raw_request", args, acq, <<>>,
                        Try(Ret(Str("cross", "method must be GET, POST, PUT, DELETE, or PATCH"))))
           ELSE IF truthy(strip(body)) /\ ~json_loads_ok(body)
           THEN Returns("firefly_raw_request", args, acq, <<>>, Try(Ret(Str("cross", "body must be valid JSON"))))
           ELSE \E out \in BackendOutcomes :
                  IF ~out.ok
                  THEN Returns("firefly_raw_request", args, acq, <<Failed(req, out.exc)>>, Try(Raise(out.exc)))
                  ELSE \E data \in ResponseData :
                         Returns("firefly_raw_request", args, acq, <<[req EXCEPT !.rows = 1, !.data = <<data>>]>>,
                                 Try(Ret(Rendered("check", "API Response",
                                                  IF data.json THEN "json" ELSE "response.data", 0))))

(***************************************************************************)
(* Read and update adapters                                                *)
(***************************************************************************)
\* OneCall that repeats the call once when it fails
OneCall_retry(tool, args, op, payload, done) ==
    LET acq == Acquire
        req == Request(op, FALSE, acq.client, payload)
    IN IF acq.raised
       THEN Returns(tool, args, acq, <<>>, Try(Raise(ConfigError)))
       ELSE \E out \in BackendOutcomes :
              IF ~out.ok
              THEN \E again \in BackendOutcomes :
                     IF ~again.ok
                     THEN Returns(tool, args, acq, <<Failed(req, out.exc), Failed(req, again.exc)>>, Try(Raise(again.exc)))
                     ELSE Returns(tool, args, acq, <<Failed(req, out.exc), req>>, Try(Ret(Str("check", done))))
              ELSE Returns(tool, args, acq, <<req>>, Try(Ret(Str("check", done))))

\* The rest of an adapter after its validation: get_api_client, one backend
\* call, the formatted result.
OneCall(tool, args, op, payload, done) ==
    LET acq == Acquire
        req == Request(op, FALSE, acq.client, payload)
    IN IF acq.raised
       THEN Returns(tool, args, acq, <<>>, Try(Raise(ConfigError)))
       ELSE \E out \in BackendOutcomes :
              IF ~out.ok
              THEN Returns(tool, args, acq, <<Failed(req, out.exc)>>, Try(Raise(out.exc)))
              ELSE Returns(tool, args, acq, <<req>>, Try(Ret(Str("check", done))))

health_check ==
    /\ Idle
    /\ OneCall("health_check", <<>>, "get_about", <<>>, "Connected to Firefly III")

get_account_details ==
    /\ Idle
    /\ \E account_id \in Ids :
        LET args == [id |-> account_id]
        IN IF ~truthy(strip(account_id))
           THEN Returns("get_account_details", args, NoAcquire, <<>>, Try(Ret(Str("cross", "account_id is required"))))
           ELSE OneCall("get_account_details", args, "get_account", [id |-> account_id], "Account Details")

Amounts == { <<>>, <<" ">>, <<"5">> }

update_available_budget ==
    /\ Idle
    /\ \E available_budget_id \in Ids, amount \in Amounts :
        LET args == [id |-> available_budget_id, amount |-> amount]
        IN IF ~truthy(strip(available_budget_id))
           THEN Returns("update_available_budget", args, NoAcquire, <<>>,
                        Try(Ret(Str("cross", "available_budget_id is required"))))
           ELSE IF ~truthy(amount)
           THEN Returns("update_available_budget", args, NoAcquire, <<>>, Try(Ret(Str("cross", "amount is required"))))
           ELSE OneCall("update_available_budget", args, "update_available_budget",
                        [id |-> available_budget_id, amount |-> amount], "Updated available budget")

get_user ==
    /\ Idle
    /\ \E user_id \in Ids :
        OneCall("get_user", [id |-> user_id], "get_user", [id |-> user_id], "user")

(***************************************************************************)
(* int(), dates and list_transactions_for_period                           *)
(***************************************************************************)
digit_value(c) ==
    CASE c = "0" -> 0 [] c = "1" -> 1 [] c = "2" -> 2 [] c = "3" -> 3 [] c = "4" -> 4
      [] c = "5" -> 5 [] c = "6" -> 6 [] c = "7" -> 7 [] c = "8" -> 8 [] c = "9" -> 9

\* int(s) raises ValueError unless s, stripped, is a decimal literal
int_ok(s) == strip(s) # <<>> /\ \A i \in 1..Len(strip(s)) : strip(s)[i] \in AsciiDigits

RECURSIVE int_digits(_)
int_digits(s) == IF s = <<>> THEN 0 ELSE 10 * int_digits(SubSeq(s, 1, Len(s) - 1)) + digit_value(s[Len(s)])

int(s) == int_digits(strip(s))

is_leap(y) == (y % 4 = 0 /\ y % 100 # 0) \/ y % 400 = 0

days_in_month(y, m) ==
    CASE m \in {1, 3, 5, 7, 8, 10, 12} -> 31
      [] m \in {4, 6, 9, 11} -> 30
      [] OTHER -> IF is_leap(y) THEN 29 ELSE 28

Date(y, m, d) == [y |-> y, m |-> m, d |-> d]

\* dt.date(y, m, 1) raises ValueError outside MINYEAR..MAXYEAR and 1..12
date_ok(y, m) == y \in 1..9999 /\ m \in 1..12

\* month_end that takes every February to have 28 days
month_end_no_leap(y, m) == Date(y, m, IF m = 2 THEN 28 ELSE days_in_month(y, m))

\* date(y, m, 1) + relativedelta(months=1) - timedelta(days=1)
month_end(y, m) == Date(y, m, days_in_month(y, m))

\* datetime.now()
Todays == { Date(2024, 3, 15), Date(2023, 12, 31), Date(2024, 2, 29), Date(2023, 2, 1), Date(2024, 4, 30) }

S_month == <<"month">>
S_year == <<"year">>

Periods == { S_month, S_year, <<"week">> }

Years == { <<>>, <<"x">>, <<"2", "0", "2", "4">>, <<"0">> }

Months == { <<>>, <<"2">>, <<" ", "1", "2">>, <<"1", "3">>, <<"sup2">> }

\* a leap year, a common year, and the century years 1900 (common) and 2000
\* (leap)
CalendarYears ==
    { <<"2", "0", "2", "4">>, <<"2", "0", "2", "3">>, <<"1", "9", "0", "0">>, <<"2", "0", "0", "0">> }

\* the months 1..12, and 0
CalendarMonths ==
    { <<"0">>, <<"1">>, <<"2">>, <<"3">>, <<"4">>, <<"5">>, <<"6">>, <<"7">>, <<"8">>, <<"9">>,
      <<"1", "0">>, <<"1", "1">>, <<"1", "2">> }

\* list_transactions with the range given and the other parameters default
list_transactions_range(tool, args, start_date, end_date) ==
    LET acq == Acquire
        req == Request("list_transaction", FALSE, acq.client,
                       [start |-> start_date, end |-> end_date, limit |-> 50])
    IN IF acq.raised
       THEN Returns(tool, args, acq, <<>>, Try(Raise(ConfigError)))
       ELSE \E out \in BackendOutcomes :
              IF ~out.ok
              THEN Returns(tool, args, acq, <<Failed(req, out.exc)>>, Try(Raise(out.exc)))
              ELSE IF out.rows = 0
              THEN Returns(tool, args, acq, <<[req EXCEPT !.rows = out.rows]>>, Try(Ret(Str("mailbox", "No transactions found"))))
              ELSE Returns(tool, args, acq, <<[req EXCEPT !.rows = out.rows]>>, Try(Ret(Str("memo", "Found transaction(s)"))))

\* The body of list_transactions_for_period for one choice of arguments and
\* one reading of the clock.
ListTransactionsForPeriod(period, year, month, now) ==
    LET args == [period |-> period, year |-> year, month |-> month, now |-> now]
        year_int == IF truthy(strip(year)) THEN int(year) ELSE now.y
        month_int == IF truthy(strip(month)) THEN int(month) ELSE now.m
        tool == "list_transactions_for_period"
        ValueError == Returns(tool, args, NoAcquire, <<>>, Try(Raise(Exc("ValueError", 0, "none"))))
    IN IF truthy(strip(year)) /\ ~int_ok(year)
       THEN ValueError
       ELSE IF truthy(strip(month)) /\ ~int_ok(month)
       THEN ValueError
       ELSE IF period = S_month
       THEN IF month_int = 12
            THEN list_transactions_range(tool, args, Date(year_int, month_int, 1), Date(year_int, 12, 31))
            ELSE IF ~date_ok(year_int, month_int)
            THEN ValueError
            ELSE list_transactions_range(tool, args, Date(year_int, month_int, 1),
                                         month_end(year_int, month_int))
       ELSE IF period = S_year
       THEN list_transactions_range(tool, args, Date(year_int, 1, 1), Date(year_int, 12, 31))
       ELSE Returns(tool, args, NoAcquire, <<>>, Try(Ret(Str("cross", "period must be 'month' or 'year'"))))

list_transactions_for_period ==
    /\ Idle
    /\ \E period \in Periods, year \in Years, month \in Months, now \in Todays :
        ListTransactionsForPeriod(period, year, month, now)

\* list_transactions_for_period called for each month of the calendar years;
\* the clock is not consulted when the year and the month are given.
list_transactions_for_period_calendar ==
    /\ Idle
    /\ \E period \in { S_month, S_year }, year \in CalendarYears, month \in CalendarMonths :
        ListTransactionsForPeriod(period, year, month, Date(2024, 3, 15))

\* The parameters an adapter needs to address its endpoint, by tool.
RequiredParams(tool) ==
    CASE tool \in {"delete_account", "delete_transaction", "delete_rule", "delete_currency",
                   "delete_user", "get_account_details", "get_user"} -> {"id"}
      [] tool = "delete_budget_limit" -> {"id", "budget_id"}
      [] tool = "update_available_budget" -> {"id", "amount"}
      [] tool = "firefly_raw_request" -> {"path"}
      [] OTHER -> {}

(***************************************************************************)
(* Create adapters: the request dict and identifier routing                *)
(***************************************************************************)
EmptyPayload == <<>>

\* d[k] = v when cond holds, nothing otherwise
Item(cond, k, v) == IF cond THEN k :> v ELSE EmptyPayload

\* s.split(",") with every piece stripped
RECURSIVE split_comma(_, _)
split_comma(s, piece) ==
    IF s = <<>> THEN <<strip(piece)>>
    ELSE IF Head(s) = "," THEN <<strip(piece)>> \o split_comma(Tail(s), <<>>)
    ELSE split_comma(Tail(s), Append(piece, Head(s)))

\* if budget: budget_id for numeric input, budget_name for text
budget_items(budget) ==
    IF ~truthy(budget) THEN EmptyPayload
    ELSE IF isdigit(strip(budget)) THEN "budget_id" :> budget
    ELSE "budget_name" :> budget

\* the optional fields category, budget, tags, notes of a transaction split
optional_items(category, budget, tags, notes) ==
    Item(truthy(category), "category_name", category)
        @@ budget_items(budget)
        @@ Item(truthy(tags), "tags", split_comma(tags, <<>>))
        @@ Item(truthy(notes), "notes", notes)

\* datetime.now().strftime("%Y-%m-%d")
S_today == <<"today">>

Refs == { <<>>, <<"7">>, <<"a">>, <<" ", "7">>, <<"sup2">> }

Texts == { <<>>, <<" ">>, <<"d">> }

\* The argument combinations tried: the routed references with the required
\* fields given, the required fields with nothing else, the optional fields.
TransactionArgs ==
    [description : {<<"d">>}, amount : {<<"5">>}, own_account : {<<"7">>, <<"a">>},
     other_account : Refs, date : {<<>>}, category : {<<>>, <<"7">>}, budget : Refs,
     tags : {<<>>}, notes : {<<>>}]
    \cup
    [description : Texts, amount : Amounts, own_account : Ids,
     other_account : {<<>>}, date : {<<>>}, category : {<<>>}, budget : {<<>>},
     tags : {<<>>}, notes : {<<>>}]
    \cup
    [description : {<<"d">>}, amount : {<<"5">>}, own_account : {<<"7">>},
     other_account : {<<" ">>}, date : {<<>>, <<"1">>}, category : {<<>>, <<"c">>}, budget : {<<>>},
     tags : {<<>>, <<"a", ",", " ", "b">>}, notes : {<<>>, <<"n">>}]

\* create_withdrawal and create_deposit differ in the transaction type and in
\* which account is the tool's own (sent as an ID) and which is routed:
\* own is "source" for a withdrawal and "destination" for a deposit.
CreateTransaction(tool, type, own, other, a) ==
    LET acq == Acquire
        other_account == IF ~truthy(strip(a.other_account)) THEN S_Cash ELSE a.other_account
        transaction_split ==
            ("type" :> <<type>>)
                @@ ("date" :> IF truthy(a.date) THEN a.date ELSE S_today)
                @@ ("amount" :> a.amount)
                @@ ("description" :> a.description)
                @@ ((own \o "_id") :> a.own_account)
                @@ (IF isdigit(strip(other_account))
                    THEN (other \o "_id") :> other_account
                    ELSE (other \o "_name") :> other_account)
                @@ optional_items(a.category, a.budget, a.tags, a.notes)
        req == Request("store_transaction", FALSE, acq.client, transaction_split)
    IN IF ~(truthy(strip(a.description)) /\ truthy(strip(a.amount)) /\ truthy(strip(a.own_account)))
       THEN Returns(tool, a, NoAcquire, <<>>, Try(Ret(Str("cross", "description, amount, and account are required"))))
       ELSE IF acq.raised
       THEN Returns(tool, a, acq, <<>>, Try(Raise(ConfigError)))
       ELSE \E out \in BackendOutcomes :
              IF ~out.ok
              THEN Returns(tool, a, acq, <<Failed(req, out.exc)>>, Try(Raise(out.exc)))
              ELSE Returns(tool, a, acq, <<req>>, Try(Ret(Str("check", "Created"))))

create_withdrawal ==
    /\ Idle
    /\ \E a \in TransactionArgs :
        CreateTransaction("create_withdrawal", "withdrawal", "source", "destination", a)

create_deposit ==
    /\ Idle
    /\ \E a \in TransactionArgs :
        CreateTransaction("create_deposit", "deposit", "destination", "source", a)

S_withdrawal == <<"withdrawal">>
S_deposit == <<"deposit">>
S_transfer == <<"transfer">>

RecurrenceTypes == { S_withdrawal, S_deposit, S_transfer, <<"other">> }

S_monthly == <<"monthly">>

RecurrenceArgs ==
    [title : {<<"t">>}, first_date : {<<"1">>}, repeat_freq : {S_monthly},
     recurrence_type : RecurrenceTypes, description : {<<>>}, amount : {<<"5">>},
     source_account : {<<>>, <<"7">>, <<"a">>}, destination_account : {<<>>, <<"7">>, <<"a">>},
     category : {<<>>}, budget : Refs, notes : {<<>>}]
    \cup
    [title : Texts, first_date : {<<>>, <<"1">>}, repeat_freq : {S_monthly, <<"daily">>},
     recurrence_type : {S_withdrawal}, description : {<<>>, <<"d">>}, amount : Amounts,
     source_account : {<<>>}, destination_account : {<<>>},
     category : {<<>>, <<"c">>}, budget : {<<>>}, notes : {<<>>, <<"n">>}]

\* the account fields of a recurrence: fixed by the recurrence type
recurrence_account_items(a) ==
    CASE a.recurrence_type = S_withdrawal ->
            Item(truthy(a.source_account), "source_id", a.source_account)
                @@ ("destination_name" :>
                        IF truthy(a.destination_account) THEN a.destination_account ELSE S_Cash)
      [] a.recurrence_type = S_deposit ->
            Item(truthy(a.destination_account), "destination_id", a.destination_account)
                @@ ("source_name" :>
                        IF truthy(a.source_account) THEN a.source_account ELSE S_Cash)
      [] a.recurrence_type = S_transfer ->
            ("source_id" :> a.source_account) @@ ("destination_id" :> a.destination_account)
      [] OTHER -> EmptyPayload

create_recurrence ==
    /\ Idle
    /\ \E a \in RecurrenceArgs :
        LET acq == Acquire
            tool == "create_recurrence"
            transaction_data ==
                ("type" :> a.recurrence_type)
                    @@ ("description" :> IF truthy(a.description) THEN a.description ELSE a.title)
                    @@ ("amount" :> a.amount)
                    @@ ("currency_code" :> <<"USD">>)
                    @@ recurrence_account_items(a)
                    @@ Item(truthy(a.category), "category_name", a.category)
                    @@ budget_items(a.budget)
            repetition_data ==
                ("type" :> a.repeat_freq) @@ ("moment" :> <<"1">>) @@ ("skip" :> 0)
            recurrence_data ==
                ("title" :> a.title)
                    @@ ("first_date" :> a.first_date)
                    @@ ("repeat_freq" :> a.repeat_freq)
                    @@ ("type" :> <<"recurrence">>)
                    @@ ("repetitions" :> <<repetition_data>>)
                    @@ ("transactions" :> <<transaction_data>>)
                    @@ ("apply_rules" :> TRUE)
                    @@ ("active" :> TRUE)
                    @@ Item(truthy(a.notes), "notes", a.notes)
            req == Request("store_recurrence", FALSE, acq.client, recurrence_data)
        IN IF ~(truthy(strip(a.title)) /\ truthy(strip(a.first_date)) /\ truthy(strip(a.amount)))
           THEN Returns(tool, a, NoAcquire, <<>>, Try(Ret(Str("cross", "title, first_date, and amount are required"))))
           ELSE IF acq.raised
           THEN Returns(tool, a, acq, <<>>, Try(Raise(ConfigError)))
           ELSE IF /\ a.recurrence_type = S_transfer
                   /\ (~truthy(a.source_account) \/ ~truthy(a.destination_account))
           THEN Returns(tool, a, acq, <<>>,
                        Try(Ret(Str("cross", "Both source_account and destination_account required for transfers"))))
           ELSE \E out \in BackendOutcomes :
                  IF ~out.ok
                  THEN Returns(tool, a, acq, <<Failed(req, out.exc)>>, Try(Raise(out.exc)))
                  ELSE Returns(tool, a, acq, <<req>>, Try(Ret(Str("check", "Created recurring transaction"))))

(***************************************************************************)
(* List and aggregate adapters                                             *)
(***************************************************************************)
\* the request, answered with n records
Answered(req, n) == [req EXCEPT !.rows = n]

\* the request, answered with the records data
AnsweredWith(req, data) == [req EXCEPT !.rows = Len(data), !.data = data]

\* s in t, for strings
contains(t, s) == \E i \in 0..(Len(t) - Len(s)) : SubSeq(t, i + 1, i + Len(s)) = s

list_accounts ==
    /\ Idle
    /\ \E account_type \in { <<>>, <<"asset">> }, name_filter \in { <<>>, <<"c", "A">>, <<"z">> } :
        LET args == [account_type |-> account_type, name_filter |-> name_filter]
            acq == Acquire
            req == Request("list_account", FALSE, acq.client,
                           IF truthy(account_type) THEN ("type" :> account_type) ELSE <<>>)
        IN IF acq.raised
           THEN Returns("list_accounts", args, acq, <<>>, Try(Raise(ConfigError)))
           ELSE \E out \in BackendOutcomes, data \in { <<>>, << <<"C", "a", "s", "h">>, <<"B", "a", "n", "k">> >> } :
                  IF ~out.ok
                  THEN Returns("list_accounts", args, acq, <<Failed(req, out.exc)>>, Try(Raise(out.exc)))
                  ELSE LET filtered == IF truthy(name_filter)
                                       THEN SelectSeq(data, LAMBDA name : contains(lower(name), lower(name_filter)))
                                       ELSE data
                       IN IF filtered = <<>>
                          THEN Returns("list_accounts", args, acq, <<AnsweredWith(req, data)>>,
                                       Try(Ret(Str("mailbox", "No accounts found matching criteria"))))
                          ELSE Returns("list_accounts", args, acq, <<AnsweredWith(req, data)>>,
                                       Try(Ret(Rendered("money", "Found account(s)", "table", Len(filtered)))))

\* A date argument is a string that holds a date.
DateArgs == { <<>>, <<Date(2024, 1, 5)>> }

list_all_budget_limits ==
    /\ Idle
    /\ \E start_date \in DateArgs, end_date \in DateArgs :
        LET args == [start_date |-> start_date, end_date |-> end_date]
            acq == Acquire
            req == Request("list_budget_limit", FALSE, acq.client, [start |-> start_date, end |-> end_date])
        IN IF acq.raised
           THEN Returns("list_all_budget_limits", args, acq, <<>>, Try(Raise(ConfigError)))
           ELSE \E out \in BackendOutcomes :
                  IF ~out.ok
                  THEN Returns("list_all_budget_limits", args, acq, <<Failed(req, out.exc)>>, Try(Raise(out.exc)))
                  ELSE Returns("list_all_budget_limits", args, acq, <<Answered(req, out.rows)>>,
                               Try(Ret(Rendered("brace", "limits, total", "json", out.rows))))

\* period_default with every month taken to have 30 days
period_default_30_days(start_date, end_date, now) ==
    IF ~truthy(start_date) \/ ~truthy(end_date)
    THEN [start |-> <<Date(now.y, now.m, 1)>>, end |-> <<Date(now.y, now.m, 30)>>, now |-> <<now>>]
    ELSE [start |-> start_date, end |-> end_date, now |-> None]

\* period_default that fills in only the bound left out
period_default_missing_only(start_date, end_date, now) ==
    [start |-> IF truthy(start_date) THEN start_date ELSE <<Date(now.y, now.m, 1)>>,
     end |-> IF truthy(end_date) THEN end_date ELSE <<month_end(now.y, now.m)>>,
     now |-> IF ~truthy(start_date) \/ ~truthy(end_date) THEN <<now>> ELSE None]

\* "if not start_date or not end_date": the current month, from
\* f"{now.year}-{now.month:02d}-01" to the day before the first of the next
\* month; when one of the two is given it is replaced as well.
period_default(start_date, end_date, now) ==
    IF ~truthy(start_date) \/ ~truthy(end_date)
    THEN [start |-> <<Date(now.y, now.m, 1)>>, end |-> <<month_end(now.y, now.m)>>, now |-> <<now>>]
    ELSE [start |-> start_date, end |-> end_date, now |-> None]

\* The first split of a transaction, as the backend returns it.  Amounts
\* are decimal strings; the ones used here are whole numbers, so float()
\* and the sums below are exact.
Split(amount, category_name, budget_name, tags) ==
    [amount |-> amount, category_name |-> category_name, budget_name |-> budget_name, tags |-> tags,
     source_name |-> <<"checking">>, destination_name |-> <<"checking">>]

Splits ==
    { Split(5, <<"food">>, <<"groceries">>, << <<"a">> >>), Split(-5, <<"food">>, None, << <<"b">> >>),
      Split(3, None, None, <<>>) }

RECURSIVE SeqsUpTo(_, _)
SeqsUpTo(S, n) ==
    IF n = 0 THEN { <<>> }
    ELSE SeqsUpTo(S, n - 1) \cup { Append(q, x) : q \in { r \in SeqsUpTo(S, n - 1) : Len(r) = n - 1 }, x \in S }

\* list_transaction: the records of the period, or an exception
TransactionOutcomes ==
    { [ok |-> TRUE, data |-> d, exc |-> NoExc] : d \in SeqsUpTo(Splits, MaxRows) }
    \cup { [ok |-> FALSE, data |-> <<>>, exc |-> o.exc] : o \in { b \in BackendOutcomes : ~b.ok } }


\* the key of one transaction; account_name is source_name in
\* spending_summary and destination_name in income_summary
group_key(txn_data, group_by, account_name) ==
    IF group_by = <<"category">>
    THEN IF truthy(txn_data.category_name) THEN txn_data.category_name ELSE <<"Uncategorized">>
    ELSE IF group_by = <<"budget">>
    THEN IF truthy(txn_data.budget_name) THEN txn_data.budget_name ELSE <<"No Budget">>
    ELSE IF group_by = <<"account">>
    THEN account_name
    ELSE <<"Other">>

\* "for txn in transactions.data": the dict grouped after the loop
group_loop(data, group_by, account_field, grouped) ==
    LET Step[i \in 0..Len(data)] ==
            IF i = 0 THEN grouped
            ELSE LET key == group_key(data[i], group_by, data[i][account_field])
                     before == IF key \in DOMAIN Step[i - 1] THEN Step[i - 1][key] ELSE 0
                 IN (key :> (before + data[i].amount)) @@ Step[i - 1]
    IN Step[Len(data)]

\* "total += amount" over the loop, and sum(float(...) for txn in data)
total_amount(data) ==
    LET Step[i \in 0..Len(data)] == IF i = 0 THEN 0 ELSE Step[i - 1] + data[i].amount
    IN Step[Len(data)]

\* (amount / total * 100) if total > 0 else 0, as the exact quotient num / den
percent(amount, total) ==
    IF total > 0 THEN [num |-> amount * 100, den |-> total] ELSE [num |-> 0, den |-> 1]

\* spending_summary and income_summary differ in the transaction type they
\* ask for, the account name they group by, and their title.  The table has
\* one row per key of grouped, then the total.
Summary(tool, type, account_field, marker, title) ==
    /\ Idle
    /\ \E start_date \in DateArgs, end_date \in DateArgs, group_by \in { <<"category">>, <<"budget">>, <<"account">>, <<"tag">> }, now \in Todays :
        LET range == period_default(start_date, end_date, now)
            args == [start_date |-> start_date, end_date |-> end_date, group_by |-> group_by,
                     now |-> range.now]
            acq == Acquire
            req == Request("list_transaction", FALSE, acq.client,
                           [start |-> range.start, end |-> range.end, type |-> type])
        IN IF acq.raised
           THEN Returns(tool, args, acq, <<>>, Try(Raise(ConfigError)))
           ELSE \E out \in TransactionOutcomes :
                  IF ~out.ok
                  THEN Returns(tool, args, acq, <<Failed(req, out.exc)>>, Try(Raise(out.exc)))
                  ELSE LET grouped == group_loop(out.data, group_by, account_field, <<>>)
                           total == total_amount(out.data)
                           rows == [key \in DOMAIN grouped |->
                                      [amount |-> grouped[key], pct |-> percent(grouped[key], total)]]
                       IN Returns(tool, args, acq, <<AnsweredWith(req, out.data)>>,
                                  Try(Ret(Rendered(marker, title, "table", Cardinality(DOMAIN grouped))
                                          @@ [groups |-> rows, total |-> total])))

spending_summary == Summary("spending_summary", S_withdrawal, "source_name", "money_wings", "Spending Summary")

income_summary == Summary("income_summary", S_deposit, "destination_name", "money", "Income Summary")

\* Two list_transaction calls, deposits then withdrawals, and a block of
\* totals.  Only the number of records and their sum reach the result.
net_flow_summary ==
    /\ Idle
    /\ \E start_date \in DateArgs, end_date \in DateArgs, now \in Todays :
        LET range == period_default(start_date, end_date, now)
            args == [start_date |-> start_date, end_date |-> end_date, now |-> range.now]
            acq == Acquire
            get_deposits == Request("list_transaction", FALSE, acq.client,
                                    [start |-> range.start, end |-> range.end, type |-> S_deposit])
            get_withdrawals == Request("list_transaction", FALSE, acq.client,
                                       [start |-> range.start, end |-> range.end, type |-> S_withdrawal])
            tool == "net_flow_summary"
        IN IF acq.raised
           THEN Returns(tool, args, acq, <<>>, Try(Raise(ConfigError)))
           ELSE \E deposits \in TransactionOutcomes :
                  IF ~deposits.ok
                  THEN Returns(tool, args, acq, <<Failed(get_deposits, deposits.exc)>>, Try(Raise(deposits.exc)))
                  ELSE \E withdrawals \in TransactionOutcomes :
                         LET first == AnsweredWith(get_deposits, deposits.data)
                             total_income == total_amount(deposits.data)
                             total_expenses == total_amount(withdrawals.data)
                             net_flow == total_income - total_expenses
                         IN IF ~withdrawals.ok
                            THEN Returns(tool, args, acq, <<first, Failed(get_withdrawals, withdrawals.exc)>>,
                                         Try(Raise(withdrawals.exc)))
                            ELSE Returns(tool, args, acq,
                                         <<first, AnsweredWith(get_withdrawals, withdrawals.data)>>,
                                         Try(Ret(Rendered("chart", "Net Flow Summary", "fields", 0)
                                                 @@ [total_income |-> total_income,
                                                     total_expenses |-> total_expenses,
                                                     net_flow |-> net_flow,
                                                     savings_rate |-> percent(net_flow, total_income)])))

\* get_budget(budget_id): the budget's name, or an exception
BudgetOutcomes ==
    { [ok |-> TRUE, name |-> <<"groceries">>, exc |-> NoExc] }
    \cup { [ok |-> FALSE, name |-> None, exc |-> o.exc] : o \in { b \in BackendOutcomes : ~b.ok } }

\* list_transaction, then get_budget, then the count and sum of the
\* transactions whose budget_name is the budget's name
get_budget_spending ==
    /\ Idle
    /\ \E budget_id \in Ids, start_date \in DateArgs, end_date \in DateArgs, now \in Todays :
        LET range == period_default(start_date, end_date, now)
            blank == ~truthy(strip(budget_id))
            args == [id |-> budget_id, start_date |-> start_date, end_date |-> end_date,
                     now |-> IF blank THEN None ELSE range.now]
            acq == Acquire
            list == Request("list_transaction", FALSE, acq.client,
                            [start |-> range.start, end |-> range.end, type |-> S_withdrawal])
            get == Request("get_budget", FALSE, acq.client, [id |-> budget_id])
            tool == "get_budget_spending"
        IN IF blank
           THEN Returns(tool, args, NoAcquire, <<>>, Try(Ret(Str("cross", "budget_id is required"))))
           ELSE IF acq.raised
           THEN Returns(tool, args, acq, <<>>, Try(Raise(ConfigError)))
           ELSE \E transactions \in TransactionOutcomes :
                  IF ~transactions.ok
                  THEN Returns(tool, args, acq, <<Failed(list, transactions.exc)>>, Try(Raise(transactions.exc)))
                  ELSE \E budget \in BudgetOutcomes :
                         LET first == AnsweredWith(list, transactions.data)
                             mine == SelectSeq(transactions.data,
                                               LAMBDA txn_data : txn_data.budget_name = budget.name)
                         IN IF ~budget.ok
                            THEN Returns(tool, args, acq, <<first, Failed(get, budget.exc)>>, Try(Raise(budget.exc)))
                            ELSE Returns(tool, args, acq, <<first, Answered(get, 1)>>,
                                         Try(Ret(Rendered("money_wings", "Budget Spending", "fields", 0)
                                                 @@ [count |-> Len(mine), total_spent |-> total_amount(mine)])))

list_transactions_without_budget ==
    /\ Idle
    /\ \E start_date \in DateArgs, end_date \in DateArgs, now \in Todays :
        LET range == period_default(start_date, end_date, now)
            args == [start_date |-> start_date, end_date |-> end_date, now |-> range.now]
            acq == Acquire
            req == Request("list_transaction", FALSE, acq.client,
                           [start |-> range.start, end |-> range.end, type |-> S_withdrawal])
            tool == "list_transactions_without_budget"
        IN IF acq.raised
           THEN Returns(tool, args, acq, <<>>, Try(Raise(ConfigError)))
           ELSE \E out \in TransactionOutcomes :
                  IF ~out.ok
                  THEN Returns(tool, args, acq, <<Failed(req, out.exc)>>, Try(Raise(out.exc)))
                  ELSE LET no_budget == SelectSeq(out.data, LAMBDA txn_data : ~truthy(txn_data.budget_name))
                       IN IF no_budget = <<>>
                          THEN Returns(tool, args, acq, <<AnsweredWith(req, out.data)>>,
                                       Try(Ret(Str("check", "All transactions have budgets assigned"))))
                          ELSE Returns(tool, args, acq, <<AnsweredWith(req, out.data)>>,
                                       Try(Ret(Rendered("warning", "Found transaction(s) without budget",
                                                        "table", Len(no_budget)))))

(***************************************************************************)
(* Update adapters                                                         *)
(***************************************************************************)
\* The identifier check, get_api_client, then the dict of the fields given;
\* an empty dict is refused, anything else is sent in one update call.
update_account ==
    /\ Idle
    /\ \E account_id \in Ids, name \in { <<>>, <<"n">> }, active \in { <<>>, <<"T", "r", "u", "e">> }, notes \in { <<>>, <<" ">> } :
        LET args == [id |-> account_id, name |-> name, active |-> active, notes |-> notes]
            acq == Acquire
            update_data ==
                Item(truthy(name), "name", name)
                    @@ Item(truthy(active), "active", lower(active) = <<"t", "r", "u", "e">>)
                    @@ Item(truthy(notes), "notes", notes)
            req == Request("update_account", FALSE, acq.client, [id |-> account_id, update |-> update_data])
            tool == "update_account"
        IN IF ~truthy(strip(account_id))
           THEN Returns(tool, args, NoAcquire, <<>>, Try(Ret(Str("cross", "account_id is required"))))
           ELSE IF acq.raised
           THEN Returns(tool, args, acq, <<>>, Try(Raise(ConfigError)))
           ELSE IF update_data = EmptyPayload
           THEN Returns(tool, args, acq, <<>>, Try(Ret(Str("cross", "At least one field to update is required"))))
           ELSE \E out \in BackendOutcomes :
                  IF ~out.ok
                  THEN Returns(tool, args, acq, <<Failed(req, out.exc)>>, Try(Raise(out.exc)))
                  ELSE Returns(tool, args, acq, <<req>>, Try(Ret(Str("check", "Updated account"))))

\* The argument combinations tried for update_transaction: nothing but the
\* identifier, and the fields one kind at a time.
UpdateTransactionArgs ==
    [id : Ids, description : {<<>>}, amount : {<<>>}, date : {<<>>}, category : {<<>>},
     budget : {<<>>}, tags : {<<>>}, notes : {<<>>}]
    \cup
    [id : {<<"7">>}, description : {<<>>, <<"d">>}, amount : {<<>>, <<"5">>}, date : {<<>>, <<"1">>},
     category : {<<>>}, budget : {<<>>, <<"2">>, <<"a">>}, tags : {<<>>, <<"a", ",", " ", "b">>}, notes : {<<>>}]
    \cup
    [id : {<<"7">>}, description : {<<>>}, amount : {<<>>}, date : {<<>>},
     category : {<<>>, <<"c">>}, budget : {<<>>}, tags : {<<>>}, notes : {<<>>, <<"n">>}]

\* The identifier check, get_api_client, a fetch of the transaction, then
\* the update call with the fields given; the dict of fields is not tested.
update_transaction ==
    /\ Idle
    /\ \E a \in UpdateTransactionArgs :
        LET acq == Acquire
            update_split ==
                Item(truthy(a.date), "date", a.date)
                    @@ Item(truthy(a.amount), "amount", a.amount)
                    @@ Item(truthy(a.description), "description", a.description)
                    @@ Item(truthy(a.category), "category_name", a.category)
                    @@ Item(truthy(a.budget), "budget_id", a.budget)
                    @@ Item(truthy(a.tags), "tags", split_comma(a.tags, <<>>))
                    @@ Item(truthy(a.notes), "notes", a.notes)
            get == Request("get_transaction", FALSE, acq.client, [id |-> a.id])
            update == Request("update_transaction", FALSE, acq.client, [id |-> a.id, update |-> update_split])
            tool == "update_transaction"
        IN IF ~truthy(strip(a.id))
           THEN Returns(tool, a, NoAcquire, <<>>, Try(Ret(Str("cross", "transaction_id is required"))))
           ELSE IF acq.raised
           THEN Returns(tool, a, acq, <<>>, Try(Raise(ConfigError)))
           ELSE \E existing \in BackendOutcomes :
                  IF ~existing.ok
                  THEN Returns(tool, a, acq, <<Failed(get, existing.exc)>>, Try(Raise(existing.exc)))
                  ELSE \E out \in BackendOutcomes :
                         IF ~out.ok
                         THEN Returns(tool, a, acq, <<get, Failed(update, out.exc)>>, Try(Raise(out.exc)))
                         ELSE Returns(tool, a, acq, <<get, update>>, Try(Ret(Str("check", "Updated transaction ID"))))

\* get_api_client and the update call, with the fields given set on the
\* AttachmentUpdate; neither the identifier nor the fields are tested.
update_attachment ==
    /\ Idle
    /\ \E attachment_id \in Ids, filename \in { <<>>, <<"n">> }, title \in { <<>>, <<"n">> }, notes \in { <<>>, <<" ">> } :
        LET args == [id |-> attachment_id, filename |-> filename, title |-> title, notes |-> notes]
            acq == Acquire
            attachment ==
                Item(truthy(filename), "filename", filename)
                    @@ Item(truthy(title), "title", title)
                    @@ Item(truthy(notes), "notes", notes)
            req == Request("update_attachment", FALSE, acq.client, [id |-> attachment_id, update |-> attachment])
            tool == "update_attachment"
        IN IF acq.raised
           THEN Returns(tool, args, acq, <<>>, Try(Raise(ConfigError)))
           ELSE \E out \in BackendOutcomes :
                  IF ~out.ok
                  THEN Returns(tool, args, acq, <<Failed(req, out.exc)>>, Try(Raise(out.exc)))
                  ELSE Returns(tool, args, acq, <<req>>, Try(Ret(Str("check", "Attachment updated"))))

(***************************************************************************)
(* Adapters that take JSON text and boolean strings                        *)
(***************************************************************************)
S_true == <<"t", "r", "u", "e">>

\* Values given for a parameter that is compared with 'true' in lower case
BoolStrings ==
    { <<>>, S_true, <<"T", "r", "u", "e">>, S_yes, <<"1">>, <<" ">> \o S_true, <<"f", "a", "l", "s", "e">> }

\* is_true that strips the value before it compares
is_true_stripped(s) == lower(strip(s)) = S_true

\* s.lower() == "true"
is_true(s) == lower(s) = S_true

\* JSON text given by the caller: none, blank, "[]" which parses, "[" which
\* does not
JsonTexts == { <<>>, <<" ">>, <<"[", "]">>, <<"[">> }

\* the value json.loads returns for a text that parses
json_loads(s) == [json |-> strip(s)]

\* what json.loads raises for a text that does not parse
JSONDecodeError == Exc("JSONDecodeError", 0, "none")

\* The required fields, then both texts parsed inside a bare "except:" that
\* returns a fixed message, then get_api_client and one store call.
create_rule ==
    /\ Idle
    /\ \E title \in { <<>>, <<"t">> }, triggers_json \in JsonTexts, actions_json \in { <<"[", "]">>, <<"[">> },
          active \in BoolStrings, strict \in { S_true, S_yes },
          stop_processing \in { <<"f", "a", "l", "s", "e">>, upper(S_true) }, description \in { <<>>, <<"d">> } :
        LET args == [title |-> title, rule_group_id |-> <<"7">>, triggers_json |-> triggers_json,
                     actions_json |-> actions_json, active |-> active, strict |-> strict,
                     stop_processing |-> stop_processing, description |-> description]
            acq == Acquire
            rule_data ==
                ("title" :> title) @@ ("rule_group_id" :> <<"7">>) @@ ("trigger" :> "store-journal")
                    @@ ("triggers" :> json_loads(triggers_json)) @@ ("actions" :> json_loads(actions_json))
                    @@ ("active" :> is_true(active)) @@ ("strict" :> is_true(strict))
                    @@ ("stop_processing" :> is_true(stop_processing))
                    @@ Item(truthy(description), "description", description)
            req == Request("store_rule", FALSE, acq.client, rule_data)
            tool == "create_rule"
        IN IF ~truthy(strip(title)) \/ ~truthy(strip(triggers_json)) \/ ~truthy(strip(actions_json))
           THEN Returns(tool, args, NoAcquire, <<>>,
                        Try(Ret(Str("cross", "title, rule_group_id, triggers_json, and actions_json are required"))))
           ELSE IF ~json_loads_ok(triggers_json) \/ ~json_loads_ok(actions_json)
           THEN Returns(tool, args, NoAcquire, <<>>,
                        Try(Ret(Str("cross", "triggers_json and actions_json must be valid JSON arrays"))))
           ELSE IF acq.raised
           THEN Returns(tool, args, acq, <<>>, Try(Raise(ConfigError)))
           ELSE \E out \in BackendOutcomes :
                  IF ~out.ok
                  THEN Returns(tool, args, acq, <<Failed(req, out.exc)>>, Try(Raise(out.exc)))
                  ELSE Returns(tool, args, acq, <<req>>, Try(Ret(Str("check", "Created rule"))))

\* The identifier check, get_api_client, then the fields given; each text is
\* parsed inside a bare "except:" that returns a fixed message.
update_rule ==
    /\ Idle
    /\ \E rule_id \in Ids, title \in { <<>>, <<"t">> }, active \in BoolStrings, triggers_json \in JsonTexts,
          actions_json \in { <<>>, <<"[", "]">>, <<"[">> } :
        LET args == [id |-> rule_id, title |-> title, active |-> active, triggers_json |-> triggers_json,
                     actions_json |-> actions_json, description |-> <<>>]
            acq == Acquire
            update_data ==
                Item(truthy(title), "title", title)
                    @@ Item(truthy(active), "active", is_true(active))
                    @@ Item(truthy(triggers_json), "triggers", json_loads(triggers_json))
                    @@ Item(truthy(actions_json), "actions", json_loads(actions_json))
            req == Request("update_rule", FALSE, acq.client, [id |-> rule_id, update |-> update_data])
            tool == "update_rule"
        IN IF ~truthy(strip(rule_id))
           THEN Returns(tool, args, NoAcquire, <<>>, Try(Ret(Str("cross", "rule_id is required"))))
           ELSE IF acq.raised
           THEN Returns(tool, args, acq, <<>>, Try(Raise(ConfigError)))
           ELSE IF truthy(triggers_json) /\ ~json_loads_ok(triggers_json)
           THEN Returns(tool, args, acq, <<>>, Try(Ret(Str("cross", "triggers_json must be valid JSON"))))
           ELSE IF truthy(actions_json) /\ ~json_loads_ok(actions_json)
           THEN Returns(tool, args, acq, <<>>, Try(Ret(Str("cross", "actions_json must be valid JSON"))))
           ELSE IF update_data = EmptyPayload
           THEN Returns(tool, args, acq, <<>>, Try(Ret(Str("cross", "At least one field to update is required"))))
           ELSE \E out \in BackendOutcomes :
                  IF ~out.ok
                  THEN Returns(tool, args, acq, <<Failed(req, out.exc)>>, Try(Raise(out.exc)))
                  ELSE Returns(tool, args, acq, <<req>>, Try(Ret(Str("check", "Updated rule"))))

\* get_api_client, then json.loads of the text inside the adapter's only
\* try block, then one call; transaction_ids is not used.
bulk_update_transactions ==
    /\ Idle
    /\ \E transaction_ids \in { <<>>, <<"7">> }, updates_json \in JsonTexts :
        LET args == [transaction_ids |-> transaction_ids, updates_json |-> updates_json]
            acq == Acquire
            updates == IF truthy(updates_json) THEN json_loads(updates_json) ELSE json_loads(<<"[", "]">>)
            req == Request("bulk_update_transactions", FALSE, acq.client, [updates |-> updates])
            tool == "bulk_update_transactions"
        IN IF acq.raised
           THEN Returns(tool, args, acq, <<>>, Try(Raise(ConfigError)))
           ELSE IF truthy(updates_json) /\ ~json_loads_ok(updates_json)
           THEN Returns(tool, args, acq, <<>>, Try(Raise(JSONDecodeError)))
           ELSE \E out \in BackendOutcomes :
                  IF ~out.ok
                  THEN Returns(tool, args, acq, <<Failed(req, out.exc)>>, Try(Raise(out.exc)))
                  ELSE Returns(tool, args, acq, <<req>>, Try(Ret(Str("check", "Bulk updated"))))

\* get_api_client, then an AttachmentStore built from the arguments as they
\* are, notes excepted (None when empty), and one store call; nothing is
\* validated.
create_attachment ==
    /\ Idle
    /\ \E filename \in { <<>>, <<"n">> }, title \in { <<>>, <<"n">> }, attachable_id \in Ids, notes \in { <<>>, <<" ">> } :
        LET args == [filename |-> filename, title |-> title, attachable_type |-> <<"Bill">>,
                     attachable_id |-> attachable_id, notes |-> notes]
            acq == Acquire
            attachment ==
                ("filename" :> filename) @@ ("title" :> title) @@ ("attachable_type" :> <<"Bill">>)
                    @@ ("attachable_id" :> attachable_id) @@ Item(truthy(notes), "notes", notes)
            req == Request("store_attachment", FALSE, acq.client, attachment)
            tool == "create_attachment"
        IN IF acq.raised
           THEN Returns(tool, args, acq, <<>>, Try(Raise(ConfigError)))
           ELSE \E out \in BackendOutcomes :
                  IF ~out.ok
                  THEN Returns(tool, args, acq, <<Failed(req, out.exc)>>, Try(Raise(out.exc)))
                  ELSE Returns(tool, args, acq, <<req>>, Try(Ret(Str("check", "Attachment created"))))

\* Dates given as text: none, an ISO date, and a text that is not a date
IsoTexts == { <<>>, <<"2", "0", "2", "4", "-", "0", "3", "-", "1", "5">>, <<"x">> }

\* datetime.fromisoformat(s).date() on the texts tried here; <<>> when it
\* raises ValueError
fromisoformat(s) ==
    IF /\ Len(s) = 10
       /\ s[5] = "-" /\ s[8] = "-"
       /\ \A i \in {1, 2, 3, 4, 6, 7, 9, 10} : s[i] \in AsciiDigits
       /\ date_ok(int(SubSeq(s, 1, 4)), int(SubSeq(s, 6, 7)))
       /\ int(SubSeq(s, 9, 10)) \in 1..days_in_month(int(SubSeq(s, 1, 4)), int(SubSeq(s, 6, 7)))
    THEN <<Date(int(SubSeq(s, 1, 4)), int(SubSeq(s, 6, 7)), int(SubSeq(s, 9, 10)))>>
    ELSE <<>>

\* get_api_client, an ExchangeRate holding rate_value as it is, the date set
\* when one is given, and one update call; nothing is validated.
update_exchange_rate ==
    /\ Idle
    /\ \E rate_id \in Ids, rate_value \in Amounts, date \in IsoTexts :
        LET args == [id |-> rate_id, rate_value |-> rate_value, date |-> date]
            acq == Acquire
            exchange_rate ==
                ("rate" :> rate_value) @@ Item(truthy(date), "date", fromisoformat(date))
            req == Request("update_currency_exchange_rate", FALSE, acq.client,
                           [id |-> rate_id, update |-> exchange_rate])
            tool == "update_exchange_rate"
        IN IF acq.raised
           THEN Returns(tool, args, acq, <<>>, Try(Raise(ConfigError)))
           ELSE IF truthy(date) /\ fromisoformat(date) = <<>>
           THEN Returns(tool, args, acq, <<>>, Try(Raise(Exc("ValueError", 0, "none"))))
           ELSE \E out \in BackendOutcomes :
                  IF ~out.ok
                  THEN Returns(tool, args, acq, <<Failed(req, out.exc)>>, Try(Raise(out.exc)))
                  ELSE Returns(tool, args, acq, <<req>>, Try(Ret(Str("check", "Exchange rate updated"))))

\* get_api_client, a User built from the arguments, blocked False and role
\* "user" when left out, and one store call; nothing is validated.
create_user ==
    /\ Idle
    /\ \E email \in { <<>>, <<"e">> }, blocked \in BoolStrings, role \in { <<>>, <<"o">> } :
        LET args == [email |-> email, password |-> <<"p">>, blocked |-> blocked, role |-> role]
            acq == Acquire
            user ==
                ("email" :> email) @@ ("password" :> <<"p">>)
                    @@ ("blocked" :> IF truthy(blocked) THEN is_true(blocked) ELSE FALSE)
                    @@ ("role" :> IF truthy(role) THEN role ELSE <<"user">>)
            req == Request("store_user", FALSE, acq.client, user)
            tool == "create_user"
        IN IF acq.raised
           THEN Returns(tool, args, acq, <<>>, Try(Raise(ConfigError)))
           ELSE \E out \in BackendOutcomes :
                  IF ~out.ok
                  THEN Returns(tool, args, acq, <<Failed(req, out.exc)>>, Try(Raise(out.exc)))
                  ELSE Returns(tool, args, acq, <<req>>, Try(Ret(Str("check", "User created"))))

\* get_api_client, a Currency with the fields given set on it, and one
\* update call; neither the code nor the fields are tested.
update_currency ==
    /\ Idle
    /\ \E currency_code \in Ids, name \in { <<>>, <<"n">> }, enabled \in BoolStrings :
        LET args == [id |-> currency_code, name |-> name, symbol |-> <<>>, enabled |-> enabled]
            acq == Acquire
            currency ==
                Item(truthy(name), "name", name)
                    @@ Item(truthy(enabled), "enabled", is_true(enabled))
            req == Request("update_currency", FALSE, acq.client, [id |-> currency_code, update |-> currency])
            tool == "update_currency"
        IN IF acq.raised
           THEN Returns(tool, args, acq, <<>>, Try(Raise(ConfigError)))
           ELSE \E out \in BackendOutcomes :
                  IF ~out.ok
                  THEN Returns(tool, args, acq, <<Failed(req, out.exc)>>, Try(Raise(out.exc)))
                  ELSE Returns(tool, args, acq, <<req>>, Try(Ret(Str("check", "Currency updated"))))

(***************************************************************************)
(* Properties of identifier routing                                        *)
(***************************************************************************)
\* the transaction dict of the request a create adapter sent
SentSplit ==
    IF returned.tool = "create_recurrence"
    THEN returned.calls[1].payload["transactions"][1]
    ELSE returned.calls[1].payload

AllDecimalDigits(v) == v # <<>> /\ \A i \in 1..Len(v) : v[i] \in AsciiDigits

\* v went to the ID-keyed field when it is all digits and to the name-keyed
\* field when it is any other supplied value; the other field is unset
Routed(d, v, field) ==
    /\ AllDecimalDigits(v) =>
          /\ (field \o "_id") \in DOMAIN d
          /\ d[field \o "_id"] = v
          /\ (field \o "_name") \notin DOMAIN d
    /\ (v # <<>> /\ ~AllDecimalDigits(v)) =>
          /\ (field \o "_name") \in DOMAIN d
          /\ d[field \o "_name"] = v
          /\ (field \o "_id") \notin DOMAIN d

\* C10: in create_withdrawal, create_deposit and create_recurrence every
\* account and budget reference made only of decimal digits fills the
\* ID-keyed field and leaves the name-keyed field unset, and every other
\* value fills the name-keyed field and leaves the ID-keyed field unset.
C10_IdentifierRouting ==
    (returned.tool \in {"create_withdrawal", "create_deposit", "create_recurrence"}
        /\ returned.calls # <<>>)
    => /\ Routed(SentSplit, returned.args.budget, "budget")
       /\ returned.tool = "create_withdrawal" =>
             /\ Routed(SentSplit, returned.args.own_account, "source")
             /\ Routed(SentSplit, returned.args.other_account, "destination")
       /\ returned.tool = "create_deposit" =>
             /\ Routed(SentSplit, returned.args.own_account, "destination")
             /\ Routed(SentSplit, returned.args.other_account, "source")
       /\ returned.tool = "create_recurrence" =>
             /\ Routed(SentSplit, returned.args.source_account, "source")
             /\ Routed(SentSplit, returned.args.destination_account, "destination")

(***************************************************************************)
(* Properties of the destructive adapters                                  *)
(***************************************************************************)
AsyncDeleteTools == {"delete_account", "delete_transaction", "delete_rule"}

SyncDeleteTools == {"delete_budget_limit", "delete_currency", "delete_user", "destroy_data"}

Completed == returned.tool # "none"

\* the confirmation is exactly the literal the adapter documents
ExactConfirmation ==
    CASE returned.tool \in AsyncDeleteTools -> returned.args.confirm = S_DELETE
      [] returned.tool \in SyncDeleteTools -> returned.args.confirm = S_yes
      [] returned.tool = "purge_data" ->
            returned.args.confirm_purge = S_PURGE /\ returned.args.confirm_yes = S_yes
      [] OTHER -> FALSE

\* the confirmation the adapter accepts: 'yes' in any letter case
AcceptedConfirmation ==
    CASE returned.tool \in AsyncDeleteTools -> returned.args.confirm = S_DELETE
      [] returned.tool \in SyncDeleteTools -> lower(returned.args.confirm) = S_yes
      [] returned.tool = "purge_data" ->
            returned.args.confirm_purge = S_PURGE /\ lower(returned.args.confirm_yes) = S_yes
      [] OTHER -> FALSE

IsWarning == ~returned.raised /\ returned.result.marker = "warning"

IsErrorString == ~returned.raised /\ returned.result.marker = "cross"

IsValidationError ==
    IsErrorString /\ returned.result.status = 0 /\ returned.result.detail = "-"

BlankIdentifier == returned.tool \in AsyncDeleteTools /\ ~truthy(strip(returned.args.id))

\* C1 as stated: a destructive adapter called without exactly the required
\* literal returns the warning string and issues no backend call, whatever
\* the other parameters are.
C1_AsStated ==
    (returned.tool \in DestructiveTools /\ ~ExactConfirmation)
        => (IsWarning /\ returned.calls = <<>>)

\* C1 amended: a destructive adapter called without the confirmation it
\* accepts ('DELETE' exactly; 'yes' and the 'yes' of purge_data in any letter
\* case) issues no backend call, and returns the warning string unless it is
\* an async delete_* tool with a blank identifier, which returns the
\* validation error instead.
C1_RefusedWithoutConfirmation ==
    (returned.tool \in DestructiveTools /\ ~AcceptedConfirmation)
        => /\ returned.calls = <<>>
           /\ returned.acquired.read = 0
           /\ IF BlankIdentifier THEN IsValidationError ELSE IsWarning

C1_Witness ==
    /\ returned.tool = "delete_user"
    /\ returned.args.confirm = S_DELETE
    /\ IsWarning
    /\ returned.calls = <<>>

HasIdentifier ==
    \/ returned.tool = "purge_data"
    \/ /\ returned.tool \in DestructiveTools \ {"purge_data"}
       /\ truthy(strip(returned.args.id))
       /\ returned.tool = "delete_budget_limit" => truthy(strip(returned.args.budget_id))

OneDestructiveCall ==
    /\ Len(returned.calls) = 1
    /\ returned.calls[1].op = returned.tool
    /\ returned.calls[1].destructive

\* C2 as stated: with the exact literal and a non-empty identifier a
\* destructive adapter issues exactly one backend call.
C2_AsStated ==
    (returned.tool \in DestructiveTools /\ ExactConfirmation /\ HasIdentifier)
        => OneDestructiveCall

\* C2 amended: with the exact literal and a non-empty identifier a
\* destructive adapter issues exactly one backend call, the delete, destroy
\* or purge request, whether it succeeds or fails, provided get_api_client()
\* returns a handle; when get_api_client() raises for missing configuration
\* it issues none and returns an error string.
C2_ConfirmedIssuesOneCall ==
    (returned.tool \in DestructiveTools /\ ExactConfirmation /\ HasIdentifier)
        => IF returned.acquired.raised
           THEN returned.calls = <<>> /\ IsErrorString
           ELSE OneDestructiveCall /\ returned.calls[1].client = _api_client

C2_Witness ==
    /\ returned.tool = "destroy_data"
    /\ ExactConfirmation
    /\ HasIdentifier
    /\ OneDestructiveCall
    /\ IsErrorString
    /\ returned.result.status = 500

IsRawDelete ==
    returned.tool = "firefly_raw_request" /\ upper(returned.args.method) = S_DELETE

\* C3 as stated: no destructive request is ever issued by an invocation
\* without the correct confirmation, firefly_raw_request included.
C3_AsStated ==
    \A i \in 1..Len(returned.calls) :
        returned.calls[i].destructive
            => (returned.tool \in DestructiveTools /\ ExactConfirmation)

\* C3 amended: a destructive request is issued only by a delete_*,
\* destroy_data or purge_data invocation that carried the confirmation the
\* adapter accepts, or by firefly_raw_request called with method DELETE,
\* which asks for no confirmation.
C3_DestructiveOnlyConfirmedOrRaw ==
    \A i \in 1..Len(returned.calls) :
        returned.calls[i].destructive
            => \/ returned.tool \in DestructiveTools /\ AcceptedConfirmation
               \/ IsRawDelete

C3_Witness ==
    /\ returned.tool = "delete_rule"
    /\ AcceptedConfirmation
    /\ Len(returned.calls) = 1
    /\ returned.calls[1].destructive
    /\ returned.result.marker = "check"

(***************************************************************************)
(* Properties of validation and of the adapter boundary                    *)
(***************************************************************************)
\* C4: an adapter called with a required parameter empty or whitespace-only
\* returns the validation-error string and issues no backend call.
C4_BlankRequiredRejected ==
    (Completed /\ \E k \in RequiredParams(returned.tool) : ~truthy(strip(returned.args[k])))
        => (IsValidationError /\ returned.calls = <<>>)

\* C5: no invocation raises to the caller; whatever validation, coercion,
\* get_api_client(), the backend call and format_error do, it returns a string.
C5_NeverRaises ==
    Completed => (~returned.raised /\ returned.result.marker # "none")

C5_Witness ==
    /\ returned.tool = "list_transactions_for_period"
    /\ returned.args.month = <<"1", "3">>
    /\ returned.args.period = S_month
    /\ IsErrorString
    /\ returned.result.detail = "ValueError"

(***************************************************************************)
(* Properties of the client manager                                        *)
(***************************************************************************)
\* the file holds a non-empty base_url and a non-empty token
Complete(f) ==
    /\ f.kind = "object"
    /\ f.section.has_base_url /\ f.section.base_url # <<>>
    /\ f.section.has_token /\ f.section.token # <<>>

\* C6: however invocations interleave, at most one client is constructed:
\* no two invocations both find _api_client None and both build a client,
\* and every invocation in flight holds the one handle.
C6_ConstructedAtMostOnce ==
    /\ constructions <= 1
    /\ \A p \in 1..NumSlots, q \in 1..NumSlots :
          (p # q /\ inflight[p].tool # "none" /\ inflight[q].tool # "none")
              => /\ ~(inflight[p].acquired.built = 1 /\ inflight[q].acquired.built = 1)
                 /\ inflight[p].acquired.client = inflight[q].acquired.client
    /\ \A p \in 1..NumSlots :
          inflight[p].tool # "none" => inflight[p].acquired.client = _api_client

C6_Witness ==
    /\ inflight[1].tool = "get_user"
    /\ inflight[1].acquired.built = 1
    /\ inflight[2].tool = "health_check"
    /\ inflight[2].acquired.read = 0
    /\ inflight[2].acquired.client = inflight[1].acquired.client
    /\ constructions = 1
    /\ reads = 3

\* C7: once a handle exists, no step changes _api_client or _configuration
\* (host and token included), and an invocation that acquires the client
\* gets that handle, whatever the file on disk holds by then.
C7_HandleNeverChanges ==
    [][_api_client # None =>
          /\ _api_client' = _api_client
          /\ _configuration' = _configuration
          /\ _configuration = <<_api_client[1].configuration>>
          /\ (returned'.tool # "none" /\ returned'.calls # <<>>)
                => returned'.calls[1].client = _api_client]_vars

C7_Witness ==
    /\ _api_client # None
    /\ Complete(file)
    /\ normalize_base_url(file.section.base_url) # _api_client[1].configuration.host
    /\ file.section.token # _api_client[1].configuration.access_token
    /\ Completed
    /\ returned.acquired.read = 0
    /\ returned.calls # <<>>
    /\ returned.calls[1].client = _api_client

\* C8: when get_api_client() finds the file absent, unreadable or without a
\* base_url or token, it raises: no client is built, _api_client stays None,
\* the tool returns an error string and no backend call is issued.
C8_MissingConfigurationFails ==
    (Completed /\ returned.acquired.read = 1 /\ ~Complete(returned.acquired.saw[1]))
        => /\ returned.acquired.raised
           /\ returned.acquired.built = 0
           /\ _api_client = None
           /\ _configuration = None
           /\ constructions = 0
           /\ IsErrorString
           /\ returned.calls = <<>>

C8_Witness ==
    /\ Completed
    /\ returned.acquired.read = 1
    /\ returned.acquired.saw[1].kind = "object"
    /\ ~returned.acquired.saw[1].section.has_token
    /\ returned.acquired.raised
    /\ IsErrorString

\* C9 as stated: the file is read at most once in the life of the process,
\* the startup path counted.
C9_AsStated == reads <= 1

\* C9 amended: the file is read once by the startup path and once by every
\* get_api_client() call made while no client exists; once a client is
\* constructed it is never read again.
C9_NoReadAfterConstruction ==
    [][/\ reads' \in {reads, reads + 1}
       /\ _api_client # None => reads' = reads
       /\ (started /\ reads' = reads + 1) => (returned'.tool # "none" /\ returned'.acquired.read = 1)]_vars

C9_Witness ==
    /\ reads = 2
    /\ _api_client # None
    /\ Completed
    /\ returned.acquired.read = 0
    /\ returned.calls # <<>>

(***************************************************************************)
(* Properties of the list and aggregate adapters                           *)
(***************************************************************************)
ListTools ==
    {"list_accounts", "list_all_budget_limits", "spending_summary", "income_summary",
     "net_flow_summary", "get_budget_spending", "list_transactions_without_budget"}

ListOps == {"list_account", "list_budget_limit", "list_transaction"}

\* every backend call of the invocation succeeded and every list came back empty
ZeroRecords ==
    /\ returned.calls # <<>>
    /\ \A i \in 1..Len(returned.calls) :
          /\ returned.calls[i].ok
          /\ returned.calls[i].op \in ListOps => returned.calls[i].rows = 0

\* a one-sentence message that is not an error
IsSentinel == returned.result.detail = "-" /\ returned.result.marker # "cross"

\* C11: every list or aggregate adapter whose backend calls succeed with zero
\* records returns its 'no results' sentence, not a table, a JSON rendering
\* or a block of fields, and not an error.
C11_EmptyRendersSentinel ==
    (returned.tool \in ListTools /\ ZeroRecords) => IsSentinel

\* the amounts of the transactions of data whose key is key, added up
GroupSum(data, group_by, account_field, key) ==
    LET Members == { i \in 1..Len(data) : group_key(data[i], group_by, data[i][account_field]) = key }
        Sum[I \in SUBSET Members] ==
            IF I = {} THEN 0
            ELSE LET i == CHOOSE j \in I : TRUE IN data[i].amount + Sum[I \ {i}]
    IN Sum[Members]

SummaryTools == {"spending_summary", "income_summary"}

SummaryRendered == returned.tool \in SummaryTools /\ returned.result.detail = "table"

AccountField == IF returned.tool = "spending_summary" THEN "source_name" ELSE "destination_name"

\* C12: in spending_summary and income_summary each group's sum is the sum
\* of the amounts of its transactions, each group's percentage is
\* group_sum / total * 100, and with total 0 every group reports 0%.
C12_GroupSumsAndPercentages ==
    SummaryRendered =>
        LET data == returned.calls[1].data
            total == returned.result.total
            groups == returned.result.groups
        IN /\ total = GroupSum(data, <<"all">>, AccountField, <<"Other">>)
           /\ \A key \in DOMAIN groups :
                 /\ groups[key].amount = GroupSum(data, returned.args.group_by, AccountField, key)
                 /\ IF total = 0
                    THEN groups[key].pct.num = 0
                    ELSE groups[key].pct.num * total = groups[key].amount * 100 * groups[key].pct.den

AggregateTools ==
    {"get_budget_spending", "list_transactions_without_budget", "spending_summary",
     "income_summary", "net_flow_summary"}

\* the last day of the month of each current date tried
ExpectedMonthEnd ==
    (Date(2024, 3, 15) :> Date(2024, 3, 31)) @@ (Date(2023, 12, 31) :> Date(2023, 12, 31))
    @@ (Date(2024, 2, 29) :> Date(2024, 2, 29)) @@ (Date(2023, 2, 1) :> Date(2023, 2, 28))
    @@ (Date(2024, 4, 30) :> Date(2024, 4, 30))

NoDateRange ==
    /\ returned.tool \in AggregateTools
    /\ returned.args.start_date = <<>>
    /\ returned.args.end_date = <<>>
    /\ returned.calls # <<>>

\* C13: an aggregate tool called with no date range asks the backend for the
\* first day through the last day of the current month, whatever the current
\* date; on 2024-03-15 that is 2024-03-01 to 2024-03-31.
C13_DefaultRangeIsCurrentMonth ==
    NoDateRange =>
        LET now == returned.args.now[1]
        IN \A i \in 1..Len(returned.calls) :
              returned.calls[i].op = "list_transaction" =>
                 /\ returned.calls[i].payload.start = <<Date(now.y, now.m, 1)>>
                 /\ returned.calls[i].payload.end = <<ExpectedMonthEnd[now]>>
                 /\ now = Date(2024, 3, 15) =>
                       /\ returned.calls[i].payload.start = <<Date(2024, 3, 1)>>
                       /\ returned.calls[i].payload.end = <<Date(2024, 3, 31)>>

C13_Witness ==
    /\ NoDateRange
    /\ returned.tool = "net_flow_summary"
    /\ returned.args.now = <<Date(2024, 3, 15)>>
    /\ Len(returned.calls) = 2
    /\ returned.calls[2].payload.end = <<Date(2024, 3, 31)>>

(***************************************************************************)
(* Properties of firefly_raw_request                                       *)
(***************************************************************************)
IsRaw == returned.tool = "firefly_raw_request"

SupportedMethod == upper(returned.args.method) \in {S_GET, S_POST, S_PUT, S_DELETE, S_PATCH}

GetAccounts ==
    /\ IsRaw
    /\ returned.args.method = S_GET
    /\ returned.args.path = <<"/", "accounts">>
    /\ returned.args.body = <<>>
    /\ ~returned.acquired.raised

MalformedBody == IsRaw /\ returned.args.body \in { <<" ">>, <<"{">> }

IsMalformedBodyError == returned.result.marker = "cross" /\ returned.result.text = "body must be valid JSON"

\* C15 as stated: a body that is not valid JSON returns the 'body must be
\* valid JSON' error and issues no backend call, and an unsupported method
\* returns an error and issues no backend call.
C15_AsStated ==
    /\ MalformedBody => (IsMalformedBodyError /\ returned.calls = <<>>)
    /\ (IsRaw /\ ~SupportedMethod) => (returned.result.marker = "cross" /\ returned.calls = <<>>)

\* C15 amended: a body that is not blank and not valid JSON issues no backend
\* call and returns an error, which is 'body must be valid JSON' when the
\* path is not blank, the client is available and the method is supported;
\* an unsupported method returns an error and issues no backend call.
C15_MalformedRejected ==
    /\ (MalformedBody /\ truthy(strip(returned.args.body))) =>
          /\ returned.calls = <<>>
          /\ returned.result.marker = "cross"
          /\ (truthy(strip(returned.args.path)) /\ ~returned.acquired.raised /\ SupportedMethod)
                => IsMalformedBodyError
    /\ (IsRaw /\ ~SupportedMethod) => (returned.result.marker = "cross" /\ returned.calls = <<>>)

C15_Witness ==
    /\ MalformedBody
    /\ returned.args.method = S_POST
    /\ returned.args.path = <<"/", "accounts">>
    /\ IsMalformedBodyError
    /\ returned.calls = <<>>
    /\ returned.acquired.client # None

(***************************************************************************)
(* Properties of the update adapters                                       *)
(***************************************************************************)
UpdateTools == {"update_account", "update_transaction", "update_attachment"}

OptionalFields ==
    CASE returned.tool = "update_account" -> {"name", "active", "notes"}
      [] returned.tool = "update_transaction" ->
            {"description", "amount", "date", "category", "budget", "tags", "notes"}
      [] returned.tool = "update_attachment" -> {"filename", "title", "notes"}
      [] OTHER -> {}

\* an update adapter called with an identifier and nothing else
NothingToUpdate ==
    /\ returned.tool \in UpdateTools
    /\ truthy(strip(returned.args.id))
    /\ \A k \in OptionalFields : returned.args[k] = <<>>

\* C16: an update adapter called with a valid identifier and every optional
\* field empty returns the 'at least one field' error and issues no backend
\* call, neither a fetch nor an update.
C16_EmptyUpdateRejected ==
    NothingToUpdate =>
        /\ returned.result.marker = "cross"
        /\ returned.result.text = "At least one field to update is required"
        /\ returned.calls = <<>>

(***************************************************************************)
(* Properties of the adapters that create, update and delete               *)
(***************************************************************************)
WriteTools ==
    {"create_withdrawal", "update_account", "update_transaction", "update_attachment",
     "delete_account", "delete_user"}

MutatingOps ==
    {"store_transaction", "update_account", "update_transaction", "update_attachment",
     "delete_account", "delete_user"}

\* the invocation inv passed the checks its adapter makes on its arguments
PassedValidation(inv) ==
    CASE inv.tool = "create_withdrawal" ->
            /\ truthy(strip(inv.args.description))
            /\ truthy(strip(inv.args.amount))
            /\ truthy(strip(inv.args.own_account))
      [] inv.tool = "update_account" ->
            /\ truthy(strip(inv.args.id))
            /\ \E k \in {"name", "active", "notes"} : inv.args[k] # <<>>
      [] inv.tool = "update_transaction" -> truthy(strip(inv.args.id))
      [] inv.tool = "update_attachment" -> TRUE
      [] inv.tool = "delete_account" -> truthy(strip(inv.args.id)) /\ inv.args.confirm = S_DELETE
      [] inv.tool = "delete_user" -> lower(inv.args.confirm) = S_yes
      [] OTHER -> FALSE

MutatingCalls(inv) == Cardinality({ i \in 1..Len(inv.calls) : inv.calls[i].op \in MutatingOps })

\* every read the invocation made before its mutating call succeeded
FetchesSucceeded(inv) ==
    \A i \in 1..Len(inv.calls) : inv.calls[i].op \notin MutatingOps => inv.calls[i].ok

SameRequest(a, b) == a.op = b.op /\ a.payload = b.payload

\* C18: within one invocation no backend request is issued a second time,
\* and a backend call that fails is the last call of the invocation, which
\* returns an error string.
C18_NoRetry ==
    Completed =>
        /\ \A i, j \in 1..Len(returned.calls) :
              i # j => ~SameRequest(returned.calls[i], returned.calls[j])
        /\ \A i \in 1..Len(returned.calls) :
              ~returned.calls[i].ok =>
                 /\ i = Len(returned.calls)
                 /\ ~returned.raised
                 /\ returned.result.marker = "cross"

C18_Witness ==
    /\ returned.tool = "net_flow_summary"
    /\ Len(returned.calls) = 1
    /\ ~returned.calls[1].ok
    /\ returned.result.marker = "cross"

(***************************************************************************)
(* Properties of the base address                                          *)
(***************************************************************************)
\* the number of places where s occurs in t
Occurrences(t, s) == Cardinality({ i \in 0..(Len(t) - Len(s)) : SubSeq(t, i + 1, i + Len(s)) = s })

\* C19: the host given to the client ends with '/api', has no trailing
\* slash and holds the '/api' suffix once, also when the configured base_url
\* has trailing slashes or already ends in '/api' or '/api/v1'; and
\* normalising it again leaves it unchanged.
C19_BaseAddressNormalised ==
    _configuration # None =>
        LET host == _configuration[1].host
        IN /\ endswith(host, S_api)
           /\ host[Len(host)] # "/"
           /\ Occurrences(host, S_api) = 1
           /\ normalize_base_url(host) = host

(***************************************************************************)
(* Properties of format_error                                              *)
(***************************************************************************)
\* the invocation ended with a backend call that raised an ApiException
ApiErrorReturned ==
    /\ Completed
    /\ returned.calls # <<>>
    /\ returned.calls[Len(returned.calls)].exc.cls = "ApiException"

RaisedApiException == returned.calls[Len(returned.calls)].exc

\* C20 as stated: the string returned for an ApiException holds the status
\* code, and its message is the 'message' of the response body when the body
\* has one and the reason phrase otherwise.
C20_AsStated ==
    ApiErrorReturned =>
        /\ returned.result.text = "API Error"
        /\ returned.result.status = RaisedApiException.status
        /\ returned.result.detail = IF RaisedApiException.body = "message" THEN "message" ELSE "reason"

\* C20 amended: the string returned for an ApiException holds the status
\* code; its message is the 'message' of the response body when the body is
\* a JSON object that has one, str(e) when the body is a JSON object without
\* 'message', and the reason phrase when the body is absent, not JSON or not
\* an object.
C20_ApiErrorRendering ==
    ApiErrorReturned =>
        /\ returned.result.marker = "cross"
        /\ returned.result.text = "API Error"
        /\ returned.result.status = RaisedApiException.status
        /\ returned.result.detail =
              CASE RaisedApiException.body = "message" -> "message"
                [] RaisedApiException.body = "nomessage" -> "str(e)"
                [] OTHER -> "reason"

C20_Witness ==
    /\ ApiErrorReturned
    /\ returned.tool = "health_check"
    /\ RaisedApiException.body = "nomessage"
    /\ returned.result.status = 422
    /\ returned.result.detail = "str(e)"

(***************************************************************************)
(* Properties of caller-supplied JSON                                      *)
(***************************************************************************)
JsonTools == { "create_rule", "update_rule", "firefly_raw_request", "bulk_update_transactions" }

\* the invocation got as far as parsing a text that does not parse: the
\* checks the adapter makes before json.loads all passed
UnparsableJson ==
    CASE returned.tool = "create_rule" ->
            /\ truthy(strip(returned.args.title))
            /\ truthy(strip(returned.args.triggers_json))
            /\ truthy(strip(returned.args.actions_json))
            /\ ~json_loads_ok(returned.args.triggers_json) \/ ~json_loads_ok(returned.args.actions_json)
      [] returned.tool = "update_rule" ->
            /\ truthy(strip(returned.args.id))
            /\ ~returned.acquired.raised
            /\ \/ truthy(returned.args.triggers_json) /\ ~json_loads_ok(returned.args.triggers_json)
               \/ truthy(returned.args.actions_json) /\ ~json_loads_ok(returned.args.actions_json)
      [] returned.tool = "firefly_raw_request" ->
            /\ truthy(strip(returned.args.path))
            /\ ~returned.acquired.raised
            /\ upper(returned.args.method) \in {S_GET, S_POST, S_PUT, S_DELETE, S_PATCH}
            /\ truthy(strip(returned.args.body))
            /\ ~json_loads_ok(returned.args.body)
      [] returned.tool = "bulk_update_transactions" ->
            /\ ~returned.acquired.raised
            /\ truthy(returned.args.updates_json)
            /\ ~json_loads_ok(returned.args.updates_json)
      [] OTHER -> FALSE

\* one of the fixed "must be valid JSON" messages
IsMustBeValidJson ==
    /\ returned.result.marker = "cross"
    /\ returned.result.text \in { "triggers_json and actions_json must be valid JSON arrays",
                                  "triggers_json must be valid JSON", "actions_json must be valid JSON",
                                  "body must be valid JSON" }

\* C21: every adapter that accepts caller-supplied JSON answers a text that
\* fails to parse with the generic 'must be valid JSON' message, without the
\* parser's diagnostic and without issuing a backend call.
C21_UnparsableJsonGeneric ==
    UnparsableJson => IsMustBeValidJson /\ returned.calls = <<>>

(***************************************************************************)
(* Properties of the payload                                               *)
(***************************************************************************)
\* a reference left empty, made of decimal digits, or made of letters
PlainRef(v) == v \in { <<>>, <<"7">>, <<"a">>, <<"c">> }

\* the account of create_withdrawal and create_deposit that is not the
\* tool's own
OtherAccount == IF returned.tool = "create_withdrawal" THEN "destination" ELSE "source"

SentPlainRefs ==
    /\ returned.tool \in { "create_withdrawal", "create_deposit" }
    /\ returned.calls # <<>>
    /\ PlainRef(returned.args.other_account)
    /\ PlainRef(returned.args.budget)
    /\ PlainRef(returned.args.category)

\* C22: in create_withdrawal and create_deposit the account reference, the
\* budget reference and the category reference each go to their own ID-keyed
\* field when all-digits and to their name-keyed field otherwise, for every
\* combination of numeric and non-numeric values.
C22_RoutingPerField ==
    SentPlainRefs =>
        /\ Routed(SentSplit, returned.args.other_account, OtherAccount)
        /\ Routed(SentSplit, returned.args.budget, "budget")
        /\ Routed(SentSplit, returned.args.category, "category")

\* the fields of the update call update_transaction sent
SentUpdate == returned.calls[2].payload.update

BudgetNameGiven ==
    /\ returned.tool = "update_transaction"
    /\ Len(returned.calls) = 2
    /\ truthy(returned.args.budget)
    /\ ~isdigit(strip(returned.args.budget))

\* C23: update_transaction accepts the budget reference as an ID only: a
\* non-numeric budget value (a name) is dropped, so the update payload sent
\* to the backend carries no budget field for it.
C23_BudgetNameDropped ==
    BudgetNameGiven => "budget_id" \notin DOMAIN SentUpdate /\ "budget_name" \notin DOMAIN SentUpdate

\* The optional parameters of the create and update adapters checked here,
\* each with the request field it fills
OptionalParams(tool) ==
    CASE tool = "create_rule" -> { <<"description", "description">> }
      [] tool = "update_rule" -> { <<"title", "title">>, <<"active", "active">>,
                                   <<"triggers_json", "triggers">>, <<"actions_json", "actions">> }
      [] tool = "create_attachment" -> { <<"title", "title">>, <<"notes", "notes">> }
      [] tool = "update_exchange_rate" -> { <<"rate_value", "rate">>, <<"date", "date">> }
      [] OTHER -> {}

\* the fields of the create or update request the invocation sent
SentFields ==
    IF returned.tool \in { "update_rule", "update_exchange_rate" }
    THEN DOMAIN returned.calls[1].payload.update
    ELSE DOMAIN returned.calls[1].payload

\* C24: for every create and update adapter, the payload sent to the backend
\* contains an optional field if and only if the caller supplied a non-empty
\* value for it: an optional parameter left as the empty string never
\* appears in the request.
C24_OptionalFieldsOnlyIfSupplied ==
    (OptionalParams(returned.tool) # {} /\ returned.calls # <<>>) =>
        \A o \in OptionalParams(returned.tool) :
            (o[2] \in SentFields) <=> truthy(returned.args[o[1]])

(***************************************************************************)
(* Properties of the result marker                                         *)
(***************************************************************************)
\* a destructive call turned away for want of the confirmation
Refused == returned.tool \in DestructiveTools /\ ~BlankIdentifier /\ ~AcceptedConfirmation

\* the invocation sent its requests and the backend answered each of them
Succeeded ==
    /\ returned.tool # "none"
    /\ returned.calls # <<>>
    /\ \A i \in 1..Len(returned.calls) : returned.calls[i].ok

\* validation, configuration, backend or unanticipated error
FailedInvocation == returned.tool # "none" /\ ~Succeeded /\ ~Refused

\* C25: a tool invocation returns a string beginning with the error marker if
\* and only if it failed; a refused destructive call begins with the warning
\* marker; no successful invocation returns a string beginning with the error
\* or the warning marker.
C25_ResultMarker ==
    Completed =>
        /\ returned.result.marker = "cross" <=> FailedInvocation
        /\ Refused => returned.result.marker = "warning"
        /\ Succeeded => returned.result.marker \notin { "cross", "warning" }

(***************************************************************************)
(* Properties of grouping                                                  *)
(***************************************************************************)
\* the key a transaction is expected under for category, budget and account
ExpectedKey(txn_data, group_by, account_field) ==
    CASE group_by = <<"category">> ->
            IF txn_data.category_name = None THEN <<"Uncategorized">> ELSE txn_data.category_name
      [] group_by = <<"budget">> ->
            IF txn_data.budget_name = None THEN <<"No Budget">> ELSE txn_data.budget_name
      [] group_by = <<"account">> -> txn_data[account_field]

\* two of the transactions summarised carry different tags
DifferentTags(data) ==
    \E i, j \in 1..Len(data) : data[i].tags # <<>> /\ data[j].tags # <<>> /\ data[i].tags # data[j].tags

\* C26: spending_summary and income_summary group by the caller-selected key
\* for each documented value of group_by (category, budget, tag, account):
\* with group_by='tag', transactions carrying different tags fall into
\* different groups keyed by tag.
C26_GroupsByDocumentedKey ==
    SummaryRendered =>
        LET data == returned.calls[1].data
            groups == DOMAIN returned.result.groups
        IN IF returned.args.group_by = <<"tag">>
           THEN DifferentTags(data) => Cardinality(groups) >= 2 /\ <<"Other">> \notin groups
           ELSE groups = { ExpectedKey(data[i], returned.args.group_by, AccountField) : i \in 1..Len(data) }

(***************************************************************************)
(* Properties of list_transactions_for_period                              *)
(***************************************************************************)
\* the numbers written by the year and month texts tried
TextNumber ==
    (<<"2", "0", "2", "4">> :> 2024) @@ (<<"2", "0", "2", "3">> :> 2023) @@ (<<"1", "9", "0", "0">> :> 1900)
    @@ (<<"2", "0", "0", "0">> :> 2000) @@ (<<"0">> :> 0) @@ (<<"1">> :> 1) @@ (<<"2">> :> 2)
    @@ (<<"3">> :> 3) @@ (<<"4">> :> 4) @@ (<<"5">> :> 5) @@ (<<"6">> :> 6) @@ (<<"7">> :> 7)
    @@ (<<"8">> :> 8) @@ (<<"9">> :> 9) @@ (<<"1", "0">> :> 10) @@ (<<"1", "1">> :> 11)
    @@ (<<"1", "2">> :> 12) @@ (<<" ", "1", "2">> :> 12) @@ (<<"1", "3">> :> 13)

\* the year and the month the invocation is about: the one given, or the
\* current one
PeriodYear == IF returned.args.year = <<>> THEN returned.args.now.y ELSE TextNumber[returned.args.year]

PeriodMonth == IF returned.args.month = <<>> THEN returned.args.now.m ELSE TextNumber[returned.args.month]

\* list_transactions_for_period called with a year and a month that are
\* numbers or left out
PeriodCall ==
    /\ returned.tool = "list_transactions_for_period"
    /\ returned.args.year \in DOMAIN TextNumber \cup { <<>> }
    /\ returned.args.month \in DOMAIN TextNumber \cup { <<>> }
    /\ PeriodYear >= 1

\* the last calendar day of month m of year y
CalendarLastDay(y, m) ==
    IF m = 2
    THEN IF y % 400 = 0 \/ (y % 4 = 0 /\ y % 100 # 0) THEN 29 ELSE 28
    ELSE IF m \in {4, 6, 9, 11} THEN 30 ELSE 31

\* the one list request sent asks for start through end; nothing is sent
\* when no client could be built
RangeQueried(start, end) ==
    /\ ~returned.acquired.raised => Len(returned.calls) = 1
    /\ \A i \in 1..Len(returned.calls) :
          /\ returned.calls[i].op = "list_transaction"
          /\ returned.calls[i].payload.start = start
          /\ returned.calls[i].payload.end = end

\* C27 as stated: for period='month' and every year and month 1..12 the
\* range queried is the first through the last calendar day of that month;
\* for period='year' it is January 1 through December 31 of that year; any
\* other period, or a month outside 1..12, returns an error string and
\* issues zero backend calls.
C27_AsStated ==
    PeriodCall =>
        CASE PeriodMonth \notin 1..12 -> IsErrorString /\ returned.calls = <<>>
          [] PeriodMonth \in 1..12 /\ returned.args.period = S_month ->
                RangeQueried(Date(PeriodYear, PeriodMonth, 1),
                             Date(PeriodYear, PeriodMonth, CalendarLastDay(PeriodYear, PeriodMonth)))
          [] PeriodMonth \in 1..12 /\ returned.args.period = S_year ->
                RangeQueried(Date(PeriodYear, 1, 1), Date(PeriodYear, 12, 31))
          [] OTHER -> IsErrorString /\ returned.calls = <<>>

\* C27: for period='month' and every year and month 1..12 the range queried
\* is the first through the last calendar day of that month, and a month
\* outside 1..12 returns an error string and issues zero backend calls; for
\* period='year' the range is January 1 through December 31 of that year
\* whatever number the month is; any other period returns an error string
\* and issues zero backend calls.
C27_PeriodRange ==
    PeriodCall =>
        CASE returned.args.period = S_month /\ PeriodMonth \in 1..12 ->
                RangeQueried(Date(PeriodYear, PeriodMonth, 1),
                             Date(PeriodYear, PeriodMonth, CalendarLastDay(PeriodYear, PeriodMonth)))
          [] returned.args.period = S_year ->
                RangeQueried(Date(PeriodYear, 1, 1), Date(PeriodYear, 12, 31))
          [] OTHER -> IsErrorString /\ returned.calls = <<>>

\* February of a leap year queried through the 29th
C27_Witness ==
    /\ PeriodCall
    /\ returned.args.period = S_month
    /\ returned.args.year = <<"2", "0", "2", "4">>
    /\ returned.args.month = <<"2">>
    /\ Len(returned.calls) = 1
    /\ returned.calls[1].ok
    /\ returned.calls[1].payload.end = Date(2024, 2, 29)

(***************************************************************************)
(* Properties of a half-given date range                                   *)
(***************************************************************************)
\* exactly one of start_date and end_date was supplied, and a request went out
OneBoundGiven ==
    /\ returned.tool \in AggregateTools
    /\ (returned.args.start_date = <<>>) # (returned.args.end_date = <<>>)
    /\ returned.calls # <<>>

\* the bound that was supplied
GivenBound == IF returned.args.start_date # <<>> THEN returned.args.start_date ELSE returned.args.end_date

\* C28: in the aggregate tools, when exactly one of start_date and end_date
\* is supplied, both bounds are replaced by the current-month default: the
\* supplied bound is discarded and never reaches the backend query.
C28_HalfRangeReplaced ==
    OneBoundGiven =>
        LET now == returned.args.now[1]
        IN \A i \in 1..Len(returned.calls) :
              returned.calls[i].op = "list_transaction" =>
                 /\ returned.calls[i].payload.start = <<Date(now.y, now.m, 1)>>
                 /\ returned.calls[i].payload.end = <<ExpectedMonthEnd[now]>>
                 /\ returned.calls[i].payload.start # GivenBound
                 /\ returned.calls[i].payload.end # GivenBound

\* an end date given alone, and the list request answered
C28_Witness ==
    /\ OneBoundGiven
    /\ returned.tool = "get_budget_spending"
    /\ returned.args.end_date = <<Date(2024, 1, 5)>>
    /\ returned.calls[1].op = "list_transaction"
    /\ returned.calls[1].ok
    /\ returned.calls[1].payload.end = <<Date(2024, 3, 31)>>

(***************************************************************************)
(* Properties of a failed client acquisition                               *)
(***************************************************************************)
\* The startup path reads the file once and get_api_client() once per call
\* made while no client exists, so a second read with nothing constructed
\* means a get_api_client() call has failed.
AcquisitionFailedBefore == started /\ reads >= 2 /\ constructions = 0

\* the invocation got as far as get_api_client()
ReachedAcquire(inv) == inv.acquired.raised \/ inv.acquired.client # None

\* C29: after get_api_client() has failed for missing configuration,
\* _api_client is still None, the next invocation re-reads the configuration
\* file, and once the file holds base_url and token that invocation
\* constructs the client and succeeds without a process restart.
C29_FailureDoesNotPoison ==
    [][AcquisitionFailedBefore =>
          /\ _api_client = None
          /\ (returned.tool = "none" /\ returned'.tool # "none" /\ ReachedAcquire(returned')) =>
                /\ returned'.acquired.read = 1
                /\ returned'.acquired.saw = <<file>>
                /\ Complete(file) =>
                      /\ ~returned'.acquired.raised
                      /\ returned'.acquired.built = 1
                      /\ constructions' = 1
                      /\ _api_client' # None
                      /\ _api_client'[1].configuration.access_token = file.section.token
                      /\ \A i \in 1..Len(returned'.calls) : returned'.calls[i].client = _api_client'
                      /\ (returned'.calls # <<>> /\ \A i \in 1..Len(returned'.calls) : returned'.calls[i].ok)
                            => returned'.result.marker \notin { "cross", "warning" }
                /\ ~Complete(file) =>
                      /\ returned'.acquired.raised
                      /\ _api_client' = None]_vars

\* a failed acquisition, the file completed, and then an invocation that
\* built the client and was answered
C29_Witness ==
    /\ reads = 3
    /\ constructions = 1
    /\ _api_client # None
    /\ returned.tool = "health_check"
    /\ returned.acquired.built = 1
    /\ returned.calls # <<>>
    /\ returned.calls[1].ok
    /\ returned.result.marker = "check"

(***************************************************************************)
(* Properties of boolean strings                                           *)
(***************************************************************************)
\* The parameters compared with 'true', by tool, each with the field it fills
BoolParams(tool) ==
    CASE tool = "create_rule" -> { <<"active", "active">>, <<"strict", "strict">>,
                                   <<"stop_processing", "stop_processing">> }
      [] tool = "update_rule" -> { <<"active", "active">> }
      [] tool = "update_account" -> { <<"active", "active">> }
      [] tool = "create_user" -> { <<"blocked", "blocked">> }
      [] tool = "update_currency" -> { <<"enabled", "enabled">> }
      [] OTHER -> {}

BoolUpdateTools == { "update_rule", "update_account", "update_currency" }

\* 'true' in the letter cases tried
TrueTexts == { <<"t", "r", "u", "e">>, <<"T", "r", "u", "e">>, <<"T", "R", "U", "E">> }

\* what the create or update request carried
BoolPayload ==
    IF returned.tool \in BoolUpdateTools
    THEN returned.calls[1].payload.update
    ELSE returned.calls[1].payload

\* C30: for every adapter with a boolean-valued string parameter, a non-empty
\* value is sent as true if and only if it equals 'true' case-insensitively;
\* every other non-empty value (e.g. 'yes', '1', ' true') is sent as false,
\* and in update adapters an empty value sends no such field at all.
C30_BooleanStrings ==
    (BoolParams(returned.tool) # {} /\ returned.calls # <<>>) =>
        \A b \in BoolParams(returned.tool) :
            LET v == returned.args[b[1]]
            IN /\ v # <<>> =>
                    /\ b[2] \in DOMAIN BoolPayload
                    /\ BoolPayload[b[2]] = (v \in TrueTexts)
               /\ (v = <<>> /\ returned.tool \in BoolUpdateTools) => b[2] \notin DOMAIN BoolPayload

\* ' true', with its leading blank, was sent as false
C30_Witness ==
    /\ returned.tool = "update_rule"
    /\ returned.args.active = <<" ", "t", "r", "u", "e">>
    /\ returned.calls # <<>>
    /\ returned.calls[1].ok
    /\ returned.calls[1].payload.update["active"] = FALSE

Next ==
    \/ Main
    \/ ChangeConfigFile
    \/ Deliver
    \/ delete_account
    \/ delete_transaction
    \/ delete_rule
    \/ delete_budget_limit
    \/ delete_currency
    \/ delete_user
    \/ destroy_data
    \/ purge_data
    \/ firefly_raw_request
    \/ health_check
    \/ get_account_details
    \/ update_available_budget
    \/ get_user
    \/ list_transactions_for_period

Spec == Init /\ [][Next]_vars

\* Invocations in flight together.  A tool function runs without interruption
\* from its entry to its backend call (get_api_client() has no await), and
\* other invocations may start or finish while that call is outstanding.
Begin(p, tool) ==
    /\ started
    /\ inflight[p].tool = "none"
    /\ LET acq == Acquire
       IN /\ reads + acq.read <= MaxReads
          /\ _api_client' = acq.api_client
          /\ _configuration' = acq.configuration
          /\ reads' = reads + acq.read
          /\ constructions' = constructions + acq.built
          /\ acq.raised \/ received < MaxReceived
          /\ received' = IF acq.raised THEN received ELSE received + 1
          /\ inflight' =
                IF acq.raised
                THEN inflight
                ELSE [inflight EXCEPT ![p] =
                        Invocation(tool, <<>>, [acq EXCEPT !.saw = None],
                                   <<Request(tool, FALSE, acq.client, <<>>)>>, FALSE, Str("none", "none"))]
    /\ UNCHANGED <<file, started, returned>>

\* an async adapter (health_check) and a sync one (get_user) are dispatched alike
BeginAsync == \E p \in 1..NumSlots : Begin(p, "health_check")

BeginSync == \E p \in 1..NumSlots : Begin(p, "get_user")

\* the backend call of slot p ends and the tool function returns its string
Finish ==
    \E p \in 1..NumSlots :
        /\ inflight[p].tool # "none"
        /\ inflight' = [inflight EXCEPT ![p] = NoInvocation]
        /\ UNCHANGED <<file, _api_client, _configuration, reads, constructions, started, returned, received>>

NextConc ==
    \/ Main
    \/ ChangeConfigFile
    \/ BeginAsync
    \/ BeginSync
    \/ Finish

SpecConc == Init /\ [][NextConc]_vars

\* The create adapters, with startup, delivery and the secrets file as above.
NextCreate ==
    \/ Main
    \/ ChangeConfigFile
    \/ Deliver
    \/ create_withdrawal
    \/ create_deposit
    \/ create_recurrence

SpecCreate == Init /\ [][NextCreate]_vars

\* The list and aggregate adapters, with startup and delivery as above.
NextList ==
    \/ Main
    \/ Deliver
    \/ list_accounts
    \/ list_all_budget_limits
    \/ spending_summary
    \/ income_summary
    \/ net_flow_summary
    \/ get_budget_spending
    \/ list_transactions_without_budget

SpecList == Init /\ [][NextList]_vars

\* Adapters that create, update and delete, and adapters that issue one and
\* two read calls, with startup and delivery.  The secrets file is any of
\* ConfigFiles from the start and is not edited while the server runs.
NextCalls ==
    \/ Main
    \/ Deliver
    \/ create_withdrawal
    \/ update_account
    \/ update_transaction
    \/ update_attachment
    \/ delete_account
    \/ delete_user
    \/ health_check
    \/ net_flow_summary

SpecCalls == Init /\ [][NextCalls]_vars

\* Adapters that parse JSON text, compare a string with 'true' or pass their
\* arguments on as they are, with startup and delivery.
NextJson ==
    \/ Main
    \/ Deliver
    \/ create_rule
    \/ update_rule
    \/ bulk_update_transactions
    \/ firefly_raw_request
    \/ create_attachment
    \/ update_exchange_rate
    \/ create_user
    \/ update_currency
    \/ update_account

SpecJson == Init /\ [][NextJson]_vars

\* list_transactions_for_period alone, over the arguments above and over
\* every month of the calendar years, with startup and delivery.
NextPeriod ==
    \/ Main
    \/ Deliver
    \/ list_transactions_for_period
    \/ list_transactions_for_period_calendar

SpecPeriod == Init /\ [][NextPeriod]_vars

====
